---- MODULE Spec2Model ----
(***************************************************************************)
(* Model of the audio core of ai-music-from-refs:                          *)
(*   src/generation/mixdown.py   mix_backing_and_vocal, _to_stereo         *)
(*   src/mixing/mixdown.py       mix_stems, _load_wave                     *)
(*   src/analysis/audio_analysis.py  aggregate_style_stats                 *)
(*   src/style/style_profile.py  build_style_profile                       *)
(*   src/analysis/audio_analysis.py  analyze_track                         *)
(*   src/generation/mixdown.py   create_final_mix                          *)
(*   src/vocals/vocal_synthesis.py   synthesize_vocals and its backends    *)
(*                                                                         *)
(* Every function is synchronous, and only the registry of vocal backends  *)
(* is kept between calls, so each specification but SpecRegistry draws the *)
(* arguments of one call (and the files it reads) in Init and runs the     *)
(* call in one action.                                                     *)
(*                                                                         *)
(* Floating-point samples, gains and tempos are modelled as exact          *)
(* rationals <<numerator, denominator>> (rounding is abstracted).          *)
(***************************************************************************)
EXTENDS Integers, Sequences, FiniteSets, TLC

VARIABLES
    pc,      \* "call": the call has not run yet; "done": it returned or raised
    input,   \* the arguments of the call, input.op names the function
    fs,      \* the filesystem: path -> file (NoFile when nothing is there)
    ret,     \* the outcome of the call: a return value or a raised exception
    reads,   \* the paths the call has read with sf.read, in order
    backends \* vocal_synthesis._VOCAL_BACKENDS: name -> registered implementation

vars == <<pc, input, fs, ret, reads, backends>>

(***************************************************************************)
(* vocals/vocal_synthesis.py, the registry of vocal backends.  The dict is *)
(* a function over the names the model uses, "none" marking a name that is *)
(* not a key.                                                              *)
(***************************************************************************)
\* line 19 (VocalBackend), a name registered by the tests and one that nobody registers
BackendNames == {"placeholder", "ai", "voice_clone", "diffsinger", "test-backend", "unknown"}

\* lines 22 and 252: the dict after import holds the placeholder only
InitialBackends ==
    [n \in BackendNames |->
        IF n = "placeholder" THEN "synthesize_vocals_placeholder" ELSE "none"]

(***************************************************************************)
(* Bounds of the model.                                                    *)
(***************************************************************************)
MaxLen == 2        \* frames per audio buffer
MaxChannels == 3   \* channels per audio buffer

(***************************************************************************)
(* Exact rational arithmetic, standing for numpy's float arithmetic.       *)
(***************************************************************************)
Abs(n) == IF n < 0 THEN -n ELSE n

RECURSIVE GCD(_, _)
GCD(a, b) == IF b = 0 THEN a ELSE GCD(b, a % b)

Rat(n, d) ==
    LET s == IF d < 0 THEN -1 ELSE 1
        g == GCD(Abs(n), Abs(d))
    IN  <<(s * n) \div g, (s * d) \div g>>

RZero == <<0, 1>>
ROne == <<1, 1>>
RInt(n) == <<n, 1>>
RAdd(a, b) == Rat(a[1] * b[2] + b[1] * a[2], a[2] * b[2])
RSub(a, b) == Rat(a[1] * b[2] - b[1] * a[2], a[2] * b[2])
RMul(a, b) == Rat(a[1] * b[1], a[2] * b[2])
RDiv(a, b) == Rat(a[1] * b[2], a[2] * b[1])
RAbs(a) == <<Abs(a[1]), a[2]>>
RLe(a, b) == a[1] * b[2] <= b[1] * a[2]
RLt(a, b) == a[1] * b[2] < b[1] * a[2]
RMax(a, b) == IF RLt(a, b) THEN b ELSE a
RMin(a, b) == IF RLt(b, a) THEN b ELSE a

\* The sample values the input files are drawn from (a float WAV may hold
\* samples beyond full scale).
SampleVals == {<<-2, 1>>, <<1, 1>>}

(***************************************************************************)
(* numpy arrays of audio: ndim = 1 is a mono vector (data: a sequence of   *)
(* samples, cols = 0), ndim = 2 is an (N, cols) matrix (data: a sequence   *)
(* of N rows of cols samples each).                                        *)
(***************************************************************************)
Array1(samples) == [ndim |-> 1, cols |-> 0, data |-> samples]
Array2(k, rows) == [ndim |-> 2, cols |-> k, data |-> rows]

\* len(a): the size of the first axis
ALen(a) == Len(a.data)

RECURSIVE SeqsOf(_, _)
SeqsOf(S, n) ==
    IF n = 0 THEN {<<>>}
    ELSE {Append(s, x) : s \in SeqsOf(S, n - 1), x \in S}

SeqsUpTo(S, n) == UNION {SeqsOf(S, k) : k \in 0..n}

\* the sequence <<F(1), .., F(n)>>, built element by element
RECURSIVE Tab(_, _)
Tab(F(_), n) == IF n = 0 THEN <<>> ELSE Append(Tab(F, n - 1), F(n))

\* _to_stereo keeping the last two channels of a wide buffer instead of the first two
to_stereo_last_two(data) ==
    IF data.ndim = 1
    THEN Array2(2, Tab(LAMBDA i : <<data.data[i], data.data[i]>>, Len(data.data)))
    ELSE IF data.cols = 1
    THEN Array2(2, Tab(LAMBDA i : <<data.data[i][1], data.data[i][1]>>, Len(data.data)))
    ELSE IF data.cols > 2
    THEN Array2(2, Tab(LAMBDA i : SubSeq(data.data[i], data.cols - 1, data.cols),
                       Len(data.data)))
    ELSE data

\* generation/mixdown.py, _to_stereo
to_stereo(data) ==
    IF data.ndim = 1
    THEN Array2(2, Tab(LAMBDA i : <<data.data[i], data.data[i]>>, Len(data.data)))
    ELSE IF data.cols = 1
    THEN Array2(2, Tab(LAMBDA i : <<data.data[i][1], data.data[i][1]>>, Len(data.data)))
    ELSE IF data.cols > 2
    THEN Array2(2, Tab(LAMBDA i : SubSeq(data.data[i], 1, 2), Len(data.data)))
    ELSE data

(***************************************************************************)
(* Outcomes of a call.                                                     *)
(***************************************************************************)
NoRet == [kind |-> "none"]
Return(v) == [kind |-> "return", value |-> v]
Raise(e, m) == [kind |-> "raise", exc |-> e, msg |-> m]

NoFile == [exists |-> FALSE]

(***************************************************************************)
(* Audio files.  A file holds its sample rate, its channel count and its   *)
(* frames (one sequence of `channels` samples per frame).  The samples are *)
(* the values sf.read returns and sf.write is handed.                      *)
(***************************************************************************)
File(sr, k, frames) ==
    [exists |-> TRUE, audio |-> TRUE, sr |-> sr, channels |-> k, frames |-> frames]

\* a file that exists and is no audio file: sf.read raises on it
Garbage == [exists |-> TRUE, audio |-> FALSE]

\* sf.read(path) succeeds: the path holds an audio file
Readable(f) == f.exists /\ f.audio

\* the output file opened before the inputs are read: a failing call leaves
\* a partial file at out_path
fs_partial_on_raise(fsys, a) == [fsys EXCEPT ![a.out_path] = Garbage]

\* the filesystem a raising call leaves: every raise of the mixers comes
\* before their mkdir and sf.write, the last statements before the return
fs_on_raise(fsys, a) == fsys

\* sf.read(path): a mono file comes back as a 1-D array, any other as (N, channels)
sf_read(f) ==
    <<IF f.channels = 1
      THEN Array1(Tab(LAMBDA i : f.frames[i][1], Len(f.frames)))
      ELSE Array2(f.channels, f.frames),
      f.sr>>

\* Stand-ins for two real sample rates, one twice the other.
SampleRates == {22050, 44100}

\* Channel counts of the input files: mono, stereo and one wider layout.
ChannelCounts == {1, 2, 3}

\* The input files of the mixer: for every channel count, rate and mono
\* waveform w over SampleVals, the file whose channel c carries w / c (so
\* that all channels of a file differ).
AudioFiles ==
    {File(sr, k, Tab(LAMBDA i : Tab(LAMBDA c : RDiv(w[i], RInt(c)), k), Len(w))) :
        sr \in SampleRates, k \in ChannelCounts, w \in SeqsUpTo(SampleVals, MaxLen)}

(***************************************************************************)
(* generation/mixdown.py, mix_backing_and_vocal                            *)
(***************************************************************************)
\* Python's round() of the quotient n / d (n >= 0, d > 0): ties go to even
RoundHalfEven(n, d) ==
    LET q == n \div d
        r == n % d
    IN  IF 2 * r < d THEN q
        ELSE IF 2 * r > d THEN q + 1
        ELSE IF q % 2 = 0 THEN q ELSE q + 1

\* lines 55-57: the length the vocal is resampled to
target_len(vocal_len, backing_len, sr, sr_v) ==
    LET t == RoundHalfEven(vocal_len * sr, sr_v)
    IN  IF t <= 0 THEN backing_len ELSE t

\* np.linspace(0, n - 1, num)[j + 1], j = 0..num-1
linspace(n, num, j) ==
    IF num = 1 THEN RZero ELSE Rat(j * (n - 1), num - 1)

\* np.interp(x, [0, 1, .., n-1], fp) for 0 <= x <= n - 1, fp non-empty
interp(x, fp) ==
    LET i  == x[1] \div x[2]          \* floor(x)
        fr == RSub(x, RInt(i))
    IN  IF i + 1 >= Len(fp) THEN fp[Len(fp)]
        ELSE RAdd(fp[i + 1], RMul(RSub(fp[i + 2], fp[i + 1]), fr))

\* lines 58-63: the (N, 2) vocal resampled to num frames, channel by channel
resample(vocal, num) ==
    LET channel(ch) == Tab(LAMBDA i : vocal.data[i][ch], ALen(vocal))
        x(j) == linspace(ALen(vocal), num, j - 1)
    IN  Array2(2, Tab(LAMBDA j : <<interp(x(j), channel(1)), interp(x(j), channel(2))>>,
                      num))

\* np.pad with the zeros put before the data instead of after it
pad_front(a, n) ==
    Array2(a.cols, Tab(LAMBDA i : IF i <= n - ALen(a) THEN Tab(LAMBDA c : RZero, a.cols)
                                  ELSE a.data[i - (n - ALen(a))],
                       n))

\* np.pad(a, ((0, n - len(a)), (0, 0)), mode="constant")
pad_end(a, n) ==
    Array2(a.cols, Tab(LAMBDA i : IF i <= ALen(a) THEN a.data[i]
                                  ELSE Tab(LAMBDA c : RZero, a.cols),
                       n))

RECURSIVE Pow10(_)
Pow10(n) == IF n = 0 THEN 1 ELSE 10 * Pow10(n - 1)

\* line 72: 10 ** (vocal_gain_db / 20.0), exact for the multiples of 20 dB
db_to_gain(db) ==
    IF db >= 0 THEN RInt(Pow10(db \div 20)) ELSE Rat(1, Pow10((-db) \div 20))

GainDbs == {-20, 20}

\* line 73: backing + vocal * gain on two (N, 2) arrays of equal length
add_with_gain(backing, vocal, gain) ==
    Array2(2, Tab(LAMBDA i : Tab(LAMBDA c : RAdd(backing.data[i][c],
                                                 RMul(vocal.data[i][c], gain)), 2),
                  ALen(backing)))

\* the samples of an (N, k) array, as a set
Samples(a) == {a.data[i][c] : i \in 1..ALen(a), c \in 1..a.cols}

\* np.max(np.abs(mix)) of a non-empty array
peak_of(samples) ==
    CHOOSE p \in {RAbs(x) : x \in samples} :
        \A x \in samples : RLe(RAbs(x), p)

HEADROOM == <<99, 100>>   \* the 0.99 of line 77

\* the peak limiter scaling to full scale, without the 0.99 headroom
peak_limit_no_headroom(mix) ==
    LET peak == peak_of(Samples(mix))
    IN  IF RLt(ROne, peak)
        THEN Array2(mix.cols,
                    Tab(LAMBDA i : Tab(LAMBDA c : RDiv(mix.data[i][c], peak), mix.cols),
                        ALen(mix)))
        ELSE mix

\* lines 75-77
peak_limit(mix) ==
    LET peak == peak_of(Samples(mix))
    IN  IF RLt(ROne, peak)
        THEN Array2(mix.cols,
                    Tab(LAMBDA i : Tab(LAMBDA c : RMul(RDiv(mix.data[i][c], peak), HEADROOM),
                                       mix.cols),
                        ALen(mix)))
        ELSE mix

\* lines 38-63: both files read, made stereo, and the vocal brought to the
\* backing's rate; ok = FALSE where np.interp raises on an empty vocal
prepared(fsys, a) ==
    LET b    == sf_read(fsys[a.backing_path])
        v    == sf_read(fsys[a.vocal_path])
        sr   == b[2]
        sr_v == v[2]
        backing == to_stereo(b[1])
        vocal   == to_stereo(v[1])
        interp_fails == sr_v # sr /\ ALen(vocal) = 0
    IN  [ok |-> ~interp_fails,
         sr |-> sr,
         backing |-> backing,
         vocal |-> IF sr_v # sr /\ ~interp_fails
                   THEN resample(vocal, target_len(ALen(vocal), ALen(backing), sr, sr_v))
                   ELSE vocal]

\* lines 65-73: the shorter buffer padded, then backing + vocal * gain
raw_mix(backing, vocal, gain) ==
    LET max_length == IF ALen(backing) >= ALen(vocal) THEN ALen(backing) ELSE ALen(vocal)
    IN  IF ALen(backing) # ALen(vocal)
        THEN add_with_gain(pad_end(backing, max_length), pad_end(vocal, max_length), gain)
        ELSE add_with_gain(backing, vocal, gain)

\* the whole call: its outcome, the filesystem it leaves and the files it read
mix_backing_and_vocal(fsys, a) ==
    LET pr  == prepared(fsys, a)
        mix == raw_mix(pr.backing, pr.vocal, db_to_gain(a.vocal_gain_db))
        rd  == <<a.backing_path, a.vocal_path>>
    IN  IF ~Readable(fsys[a.backing_path])
        THEN [ret |-> Raise("LibsndfileError", "Error opening backing_path"),
              fs |-> fs_on_raise(fsys, a), reads |-> <<a.backing_path>>]
        ELSE IF ~Readable(fsys[a.vocal_path])
        THEN [ret |-> Raise("LibsndfileError", "Error opening vocal_path"),
              fs |-> fs_on_raise(fsys, a), reads |-> rd]
        ELSE IF ~pr.ok
        THEN [ret |-> Raise("ValueError", "array of sample points is empty"),
              fs |-> fs_on_raise(fsys, a), reads |-> rd]
        ELSE IF ALen(mix) = 0
        THEN [ret |-> Raise("ValueError", "zero-size array to reduction operation maximum"),
              fs |-> fs_on_raise(fsys, a), reads |-> rd]
        ELSE [ret |-> Return(a.out_path),
              fs |-> [fsys EXCEPT ![a.out_path] = File(pr.sr, 2, peak_limit(mix).data)],
              reads |-> rd]

(***************************************************************************)
(* SpecMix: one call of mix_backing_and_vocal on two readable files.       *)
(***************************************************************************)
MixPaths == {"backing.wav", "vocal.wav", "mix.wav"}

InitMix ==
    /\ pc = "call"
    /\ input \in {[op |-> "mix_backing_and_vocal", backing_path |-> "backing.wav",
                   vocal_path |-> "vocal.wav", out_path |-> "mix.wav",
                   vocal_gain_db |-> db] : db \in GainDbs}
    /\ fs \in {[p \in MixPaths |->
                  IF p = "backing.wav" THEN b ELSE IF p = "vocal.wav" THEN v ELSE NoFile] :
                  b \in AudioFiles, v \in AudioFiles}
    /\ ret = NoRet
    /\ reads = <<>>
    /\ backends = InitialBackends

MixBackingAndVocal ==
    /\ pc = "call"
    /\ input.op = "mix_backing_and_vocal"
    /\ \E r \in {mix_backing_and_vocal(fs, input)} :
           /\ ret' = r.ret
           /\ fs' = r.fs
           /\ reads' = r.reads
    /\ pc' = "done"
    /\ UNCHANGED <<input, backends>>

NextMix == MixBackingAndVocal

SpecMix == InitMix /\ [][NextMix]_vars

(***************************************************************************)
(* SpecStereo: one call of _to_stereo on an arbitrary buffer.              *)
(***************************************************************************)
StereoInputs ==
    {Array1(s) : s \in SeqsUpTo(SampleVals, MaxLen)}
    \cup UNION {{Array2(k, rows) : rows \in SeqsUpTo(SeqsOf(SampleVals, k), MaxLen)}
                    : k \in 1..MaxChannels}

InitStereo ==
    /\ pc = "call"
    /\ input \in {[op |-> "_to_stereo", data |-> a] : a \in StereoInputs}
    /\ fs = <<>>
    /\ ret = NoRet
    /\ reads = <<>>
    /\ backends = InitialBackends

ToStereoCall ==
    /\ pc = "call"
    /\ input.op = "_to_stereo"
    /\ ret' = Return(to_stereo(input.data))
    /\ pc' = "done"
    /\ UNCHANGED <<input, fs, reads, backends>>

NextStereo == ToStereoCall

SpecStereo == InitStereo /\ [][NextStereo]_vars

(***************************************************************************)
(* mixing/mixdown.py, _load_wave and mix_stems                             *)
(***************************************************************************)
MaxStems == 3      \* stems per mix_stems call

RECURSIVE RSum(_)
RSum(xs) == IF xs = <<>> THEN RZero ELSE RAdd(xs[1], RSum(Tail(xs)))

\* lines 14-18: the file read and averaged over its channels; <<mono data, sr>>
load_wave(f) ==
    LET r == sf_read(f)
    IN  <<IF r[1].ndim > 1
          THEN Tab(LAMBDA i : RDiv(RSum(r[1].data[i]), RInt(r[1].cols)), ALen(r[1]))
          ELSE r[1].data,
          r[2]>>

\* lines 32-39: the index of the first stem whose rate differs from the
\* first stem's, 0 if there is none
RECURSIVE first_rate_mismatch(_, _, _)
first_rate_mismatch(fsys, stems, k) ==
    IF k > Len(stems) THEN 0
    ELSE IF fsys[stems[k]].sr # fsys[stems[1]].sr THEN k
    ELSE first_rate_mismatch(fsys, stems, k + 1)

\* lines 32-33: the index of the first stem sf.read fails on, 0 if there is none
RECURSIVE first_unreadable(_, _, _)
first_unreadable(fsys, stems, k) ==
    IF k > Len(stems) THEN 0
    ELSE IF ~Readable(fsys[stems[k]]) THEN k
    ELSE first_unreadable(fsys, stems, k + 1)

RECURSIVE MaxLength(_)
MaxLength(arrays) ==
    IF arrays = <<>> THEN 0
    ELSE LET m == MaxLength(Tail(arrays))
         IN  IF Len(arrays[1]) >= m THEN Len(arrays[1]) ELSE m

\* the zeros put before the data instead of after it
pad_mono_front(data, n) ==
    Tab(LAMBDA i : IF i > n - Len(data) THEN data[i - (n - Len(data))] ELSE RZero, n)

\* np.pad(data, (0, n - len(data)), mode="constant") of a mono vector
pad_mono(data, n) == Tab(LAMBDA i : IF i <= Len(data) THEN data[i] ELSE RZero, n)

\* the mean taken, at each index, over the stems that still have data there
mean_of_live_stems(audio_arrays) ==
    LET max_length == MaxLength(audio_arrays)
        live(i) == {k \in 1..Len(audio_arrays) : i <= Len(audio_arrays[k])}
    IN  Tab(LAMBDA i : RDiv(RSum(Tab(LAMBDA k : IF i <= Len(audio_arrays[k])
                                                THEN audio_arrays[k][i] ELSE RZero,
                                     Len(audio_arrays))),
                            RInt(Cardinality(live(i)))),
            max_length)

\* lines 41-49: np.sum(stacked, axis=0) / len(stacked)
mean_of_stems(audio_arrays) ==
    LET max_length == MaxLength(audio_arrays)
        stacked == Tab(LAMBDA k : pad_mono(audio_arrays[k], max_length), Len(audio_arrays))
    IN  Tab(LAMBDA i : RDiv(RSum(Tab(LAMBDA k : stacked[k][i], Len(stacked))),
                            RInt(Len(stacked))),
            max_length)

\* the mean written as it is, whatever its peak
normalize_stems_off(mix) == mix

\* the normalization of mix_backing_and_vocal, to a peak of 0.99
normalize_stems_headroom(mix) ==
    LET peak == peak_of({mix[i] : i \in 1..Len(mix)})
    IN  IF RLt(ROne, peak)
        THEN Tab(LAMBDA i : RMul(RDiv(mix[i], peak), HEADROOM), Len(mix))
        ELSE mix

\* lines 50-52: peak = np.max(np.abs(mix)); if peak > 1.0: mix /= peak
normalize_stems(mix) ==
    LET peak == peak_of({mix[i] : i \in 1..Len(mix)})
    IN  IF RLt(ROne, peak) THEN Tab(LAMBDA i : RDiv(mix[i], peak), Len(mix)) ELSE mix

DEFAULT_RATE == 44100   \* line 55: sample_rate or 44100

\* the guard accepting a single stem
too_few_stems_below_one(stems) == Len(stems) < 1

\* lines 25-27: if len(stems) < 2: raise ValueError
too_few_stems(stems) == Len(stems) < 2

\* the whole call: its outcome, the filesystem it leaves and the files it read
mix_stems(fsys, a) ==
    LET stems == a.stems
        unreadable == first_unreadable(fsys, stems, 1)
        loaded == IF unreadable = 0 THEN stems ELSE SubSeq(stems, 1, unreadable - 1)
        bad   == first_rate_mismatch(fsys, loaded, 1)
        audio_arrays == Tab(LAMBDA k : load_wave(fsys[stems[k]])[1], Len(stems))
        sample_rate  == fsys[stems[1]].sr
        mix   == mean_of_stems(audio_arrays)
    IN  IF too_few_stems(stems)
        THEN [ret |-> Raise("ValueError", "Provide at least two stems to mix."),
              fs |-> fs_on_raise(fsys, a), reads |-> <<>>]
        ELSE IF bad # 0
        THEN [ret |-> Raise("ValueError", "All stems must share the same sample rate."),
              fs |-> fs_on_raise(fsys, a), reads |-> SubSeq(stems, 1, bad)]
        ELSE IF unreadable # 0
        THEN [ret |-> Raise("LibsndfileError", "Error opening stem"),
              fs |-> fs_on_raise(fsys, a), reads |-> SubSeq(stems, 1, unreadable)]
        ELSE IF Len(mix) = 0
        THEN [ret |-> Raise("ValueError", "zero-size array to reduction operation maximum"),
              fs |-> fs_on_raise(fsys, a), reads |-> stems]
        ELSE [ret |-> Return(a.out_path),
              fs |-> [fsys EXCEPT ![a.out_path] =
                        File(IF sample_rate = 0 THEN DEFAULT_RATE ELSE sample_rate, 1,
                             Tab(LAMBDA i : <<normalize_stems(mix)[i]>>, Len(mix)))],
              reads |-> stems]

(***************************************************************************)
(* SpecStems: one call of mix_stems on up to MaxStems readable files.      *)
(***************************************************************************)
\* np.full(length, value), the waveform of the tests' _write_wave
ConstantWave(value, length) == Tab(LAMBDA i : value, length)

\* The stems of equal rate: the constant mono waves over SampleVals up to
\* MaxLen frames (the empty one included) and one stereo file of one frame.
StemContents ==
    {[channels |-> 1, frames |-> Tab(LAMBDA i : <<w[i]>>, Len(w))] :
        w \in {ConstantWave(v, n) : v \in SampleVals, n \in 0..MaxLen}}
    \cup {[channels |-> 2, frames |-> <<<<ROne, <<-2, 1>>>>>>]}

\* the stems of mixed rates: one frame of full scale, at any rate
PlainContent == [channels |-> 1, frames |-> <<<<ROne>>>>]

StemLists ==
    UNION {{Tab(LAMBDA k : File(sr, cs[k].channels, cs[k].frames), Len(cs)) :
                cs \in SeqsUpTo(StemContents, MaxStems)} : sr \in SampleRates}
    \cup {Tab(LAMBDA k : File(rs[k], PlainContent.channels, PlainContent.frames), Len(rs)) :
                rs \in SeqsUpTo(SampleRates, MaxStems)}

StemNames == <<"stem1.wav", "stem2.wav", "stem3.wav", "stem4.wav", "stem5.wav", "stem6.wav">>
StemPath(k) == StemNames[k]
OutPath == "mix.wav"

\* what may be at out_path before the call: nothing, or an earlier mix
OldMix == File(DEFAULT_RATE, 2, <<<<RZero, RZero>>>>)

\* the filesystem holding the stems at their paths and old at out_path
StemFs(files, old) ==
    [p \in {StemPath(k) : k \in 1..Len(files)} \cup {OutPath} |->
        IF p = OutPath THEN old ELSE files[CHOOSE k \in 1..Len(files) : StemPath(k) = p]]

InitStems ==
    /\ pc = "call"
    /\ \E files \in StemLists, old \in {NoFile, OldMix} :
         /\ input = [op |-> "mix_stems",
                     stems |-> Tab(LAMBDA k : StemPath(k), Len(files)),
                     out_path |-> OutPath]
         /\ fs = StemFs(files, old)
    /\ ret = NoRet
    /\ reads = <<>>
    /\ backends = InitialBackends

MixStems ==
    /\ pc = "call"
    /\ input.op = "mix_stems"
    /\ \E r \in {mix_stems(fs, input)} :
           /\ ret' = r.ret
           /\ fs' = r.fs
           /\ reads' = r.reads
    /\ pc' = "done"
    /\ UNCHANGED <<input, backends>>

NextStems == MixStems

SpecStems == InitStems /\ [][NextStems]_vars

(***************************************************************************)
(* analysis/audio_analysis.py, aggregate_style_stats, and                  *)
(* style/style_profile.py, build_style_profile.                            *)
(* A feature dict is a function from its keys to their values; its         *)
(* band_energy dict is a function from band names to magnitudes.           *)
(***************************************************************************)
MaxFeatures == 3   \* feature dicts per call

\* tempo_range taken from the first and the last tempo of the list
tempo_stats_first_last(tempos) ==
    [tempo_range |-> <<tempos[1], tempos[Len(tempos)]>>,
     tempo_mean |-> RDiv(RSum(tempos), RInt(Len(tempos)))]

\* lines 77-79: np.min, np.max and np.mean of the tempos (a non-empty list)
tempo_stats(tempos) ==
    LET S == {tempos[i] : i \in 1..Len(tempos)}
    IN  [tempo_range |-> <<CHOOSE lo \in S : \A t \in S : RLe(lo, t),
                           CHOOSE hi \in S : \A t \in S : RLe(t, hi)>>,
         tempo_mean |-> RDiv(RSum(tempos), RInt(Len(tempos)))]

\* first.get("band_energy", {}).keys()
band_keys(f) == IF "band_energy" \in DOMAIN f THEN DOMAIN f["band_energy"] ELSE {}

\* _extract_band_names accepting a first feature without bands
extract_band_names_unchecked(features) ==
    IF features = <<>>
    THEN [ok |-> FALSE, exc |-> "ValueError", msg |-> "No feature dictionaries provided"]
    ELSE [ok |-> TRUE, bands |-> band_keys(features[1])]

\* lines 58-67: _extract_band_names
extract_band_names(features) ==
    IF features = <<>>
    THEN [ok |-> FALSE, exc |-> "ValueError", msg |-> "No feature dictionaries provided"]
    ELSE IF band_keys(features[1]) = {}
    THEN [ok |-> FALSE, exc |-> "ValueError",
          msg |-> "band_energy information is missing from features"]
    ELSE [ok |-> TRUE, bands |-> band_keys(features[1])]

\* the lookup defaulting to 0.0 where the band (or band_energy) is missing
band_value_or_zero(f, band) ==
    IF "band_energy" \in DOMAIN f /\ band \in DOMAIN f["band_energy"]
    THEN [ok |-> TRUE, value |-> f["band_energy"][band]]
    ELSE [ok |-> TRUE, value |-> RZero]

\* line 84: float(f["band_energy"][band]); ok = FALSE where Python raises KeyError
band_value(f, band) ==
    IF "band_energy" \in DOMAIN f /\ band \in DOMAIN f["band_energy"]
    THEN [ok |-> TRUE, value |-> f["band_energy"][band]]
    ELSE [ok |-> FALSE]

\* lines 70-91: the outcome of aggregate_style_stats
aggregate_style_stats(features) ==
    IF features = <<>>
    THEN Raise("ValueError", "features list must not be empty")
    ELSE
      LET tempos == Tab(LAMBDA i : features[i]["tempo"], Len(features))
          stats  == tempo_stats(tempos)
          names  == extract_band_names(features)
          values(band) == Tab(LAMBDA i : band_value(features[i], band), Len(features))
      IN  IF ~names.ok THEN Raise(names.exc, names.msg)
          ELSE IF \E band \in names.bands, i \in 1..Len(features) : ~values(band)[i].ok
          THEN Raise("KeyError", "band_energy")
          ELSE Return([tempo_range |-> stats.tempo_range,
                       tempo_mean |-> stats.tempo_mean,
                       energy_profile |->
                           [band \in names.bands |->
                               RDiv(RSum(Tab(LAMBDA i : values(band)[i].value, Len(features))),
                                    RInt(Len(features)))]])

\* style_profile.py lines 16-28: the outcome of build_style_profile
build_style_profile(track_features) ==
    IF track_features = <<>>
    THEN Raise("ValueError", "track_features must not be empty")
    ELSE
      LET stats == aggregate_style_stats(track_features)
      IN  IF stats.kind = "raise" THEN stats
          ELSE Return([tempo_range |-> stats.value.tempo_range,
                       tempo_mean |-> stats.value.tempo_mean,
                       energy_profile |-> stats.value.energy_profile])

(***************************************************************************)
(* SpecStyle: one call of aggregate_style_stats or build_style_profile on  *)
(* up to MaxFeatures feature dicts.                                        *)
(***************************************************************************)
Tempos == {RInt(100), RInt(120)}

\* the band_energy dicts of the inputs: none (the key is absent), an empty
\* one, two full ones (the values of the tests), one without "high" and one
\* with a band beyond the table
BandDicts ==
    {<<>>,
     [low |-> <<1, 2>>, mid |-> <<3, 10>>, high |-> <<1, 10>>],
     [low |-> <<7, 10>>, mid |-> <<1, 2>>, high |-> <<1, 5>>],
     [low |-> <<1, 2>>, mid |-> <<3, 10>>],
     [low |-> <<1, 2>>, mid |-> <<3, 10>>, high |-> <<1, 10>>, air |-> <<1, 20>>]}

FeatureDicts ==
    {[tempo |-> t, duration |-> ROne] : t \in Tempos}
    \cup {[tempo |-> t, duration |-> ROne, band_energy |-> b] : t \in Tempos, b \in BandDicts}

InitStyle ==
    /\ pc = "call"
    /\ input \in {[op |-> o, features |-> fl] :
                    o \in {"aggregate_style_stats", "build_style_profile"},
                    fl \in SeqsUpTo(FeatureDicts, MaxFeatures)}
    /\ fs = <<>>
    /\ ret = NoRet
    /\ reads = <<>>
    /\ backends = InitialBackends

AggregateStyleStats ==
    /\ pc = "call"
    /\ input.op = "aggregate_style_stats"
    /\ ret' = aggregate_style_stats(input.features)
    /\ pc' = "done"
    /\ UNCHANGED <<input, fs, reads, backends>>

BuildStyleProfile ==
    /\ pc = "call"
    /\ input.op = "build_style_profile"
    /\ ret' = build_style_profile(input.features)
    /\ pc' = "done"
    /\ UNCHANGED <<input, fs, reads, backends>>

NextStyle == AggregateStyleStats \/ BuildStyleProfile

SpecStyle == InitStyle /\ [][NextStyle]_vars

(***************************************************************************)
(* Properties of mix_backing_and_vocal (SpecMix).                          *)
(***************************************************************************)
MixDone == pc = "done" /\ input.op = "mix_backing_and_vocal"
MixReturned == MixDone /\ ret.kind = "return"

\* the frames sf.write was handed
Written == fs[input.out_path].frames

\* sample c of frame i of a stereo buffer, 0 past its end
AtOrZero(a, i, c) == IF i <= ALen(a) THEN a.data[i][c] ELSE RZero

MaxOf(m, n) == IF m >= n THEN m ELSE n

\* raw[i][c] = backing[i][c] + gain * vocal[i][c] over the aligned buffers,
\* as the sequence of its frames
Raw ==
    LET pr == prepared(fs, input)
        g  == db_to_gain(input.vocal_gain_db)
    IN  Tab(LAMBDA i : <<RAdd(AtOrZero(pr.backing, i, 1), RMul(g, AtOrZero(pr.vocal, i, 1))),
                         RAdd(AtOrZero(pr.backing, i, 2), RMul(g, AtOrZero(pr.vocal, i, 2)))>>,
            MaxOf(ALen(pr.backing), ALen(pr.vocal)))

\* the samples of a sequence of stereo frames
FrameSamples(frames) == {frames[i][c] : i \in 1..Len(frames), c \in 1..2}

\* p is the largest magnitude among the samples
IsPeak(p, samples) ==
    /\ \E x \in samples : RAbs(x) = p
    /\ \A x \in samples : RLe(RAbs(x), p)

\* C1: when the call returns, with raw = backing + gain * vocal over the
\* aligned stereo buffers: if max|raw| > 1.0 every written sample is raw
\* times the one factor 0.99 / max|raw| and the largest written magnitude is
\* exactly 0.99; if max|raw| <= 1.0 the written samples are raw, unscaled.
C1_PeakNormalization ==
    MixReturned =>
        \A raw \in {Raw} :
            /\ Len(Written) = Len(raw)
            /\ \A p \in {RAbs(x) : x \in FrameSamples(raw)} :
                 IsPeak(p, FrameSamples(raw)) =>
                   IF RLt(ROne, p)
                   THEN /\ \A i \in 1..Len(raw), c \in 1..2 :
                             RMul(Written[i][c], p) = RMul(raw[i][c], <<99, 100>>)
                        /\ IsPeak(<<99, 100>>, FrameSamples(Written))
                   ELSE Written = raw

\* a returned mix whose raw peak exceeded 1.0 and was scaled down
C1_Witness ==
    /\ MixReturned
    /\ \E raw \in {Raw} :
         /\ \E x \in FrameSamples(raw) : RLt(ROne, RAbs(x))
         /\ Written # raw
         /\ IsPeak(<<99, 100>>, FrameSamples(Written))

\* C2: for every pair of readable inputs the call returns out_path and the
\* file written there has 2 channels and the backing file's sample rate.
C2_StereoAtBackingRate ==
    MixDone =>
        /\ ret = Return(input.out_path)
        /\ fs[input.out_path].exists
        /\ fs[input.out_path].channels = 2
        /\ \A i \in 1..Len(fs[input.out_path].frames) :
             Len(fs[input.out_path].frames[i]) = 2
        /\ fs[input.out_path].sr = fs[input.backing_path].sr

\* C3: when the call returns, the output is as long as the longer of the
\* backing and the resampled vocal, each buffer contributes its own samples
\* at its own indices and zeros only past its end (the output is the
\* peak-limited raw mix), and a vocal at another rate that is, resampled,
\* no longer than the backing gives an output of the backing's length.
C3_PadsNeverTruncates ==
    MixReturned =>
        LET pr == prepared(fs, input)
        IN  /\ Len(Written) = MaxOf(ALen(pr.backing), ALen(pr.vocal))
            /\ Len(Written) >= Len(fs[input.backing_path].frames)
            /\ Written = peak_limit(Array2(2, Raw)).data
            /\ (fs[input.vocal_path].sr # fs[input.backing_path].sr
                  /\ ALen(pr.vocal) <= ALen(pr.backing))
               => Len(Written) = Len(fs[input.backing_path].frames)

\* a returned mix of a vocal at another rate that, resampled, is shorter
\* than the backing and was padded
C3_Witness ==
    /\ MixReturned
    /\ fs[input.vocal_path].sr # fs[input.backing_path].sr
    /\ LET pr == prepared(fs, input)
       IN  /\ ALen(pr.vocal) > 0
           /\ ALen(pr.vocal) < ALen(pr.backing)
           /\ Len(Written) = ALen(pr.backing)

(***************************************************************************)
(* Properties of mix_stems (SpecStems).                                    *)
(***************************************************************************)
StemsDone == pc = "done" /\ input.op = "mix_stems"
StemsReturned == StemsDone /\ ret.kind = "return"

\* the file of the k-th stem
StemFile(k) == fs[input.stems[k]]

\* sample i of a stem reduced to mono (the mean of its channels), 0 past its end
MonoAt(f, i) ==
    IF i <= Len(f.frames) THEN RDiv(RSum(f.frames[i]), RInt(f.channels)) ELSE RZero

\* the sum over all stems at index i, divided by the number of stems
MeanAt(i) ==
    RDiv(RSum(Tab(LAMBDA k : MonoAt(StemFile(k), i), Len(input.stems))),
         RInt(Len(input.stems)))

LongestStem ==
    CHOOSE n \in {Len(StemFile(k).frames) : k \in 1..Len(input.stems)} :
        \A k \in 1..Len(input.stems) : Len(StemFile(k).frames) <= n

RatesDiffer ==
    \E j, k \in 1..Len(input.stems) : StemFile(j).sr # StemFile(k).sr

\* C4: when mix_stems returns, it was given N >= 2 stems of one sample rate
\* and the file at out_path is mono, at that rate, as long as the longest
\* stem, and holds at every index the sum of the stems there (0 for a stem
\* that has ended) divided by N, divided further by the peak of these means
\* only if that peak exceeds 1.0.
C4_MeanOverAllStems ==
    StemsReturned =>
        /\ Len(input.stems) >= 2
        /\ ~RatesDiffer
        /\ ret.value = input.out_path
        /\ \A out \in {fs[input.out_path]}, pre \in {Tab(LAMBDA i : MeanAt(i), LongestStem)} :
             /\ out.exists
             /\ out.channels = 1
             /\ out.sr = StemFile(1).sr
             /\ Len(out.frames) = LongestStem
             /\ \A p \in {RAbs(pre[i]) : i \in 1..Len(pre)} :
                  (\A i \in 1..Len(pre) : RLe(RAbs(pre[i]), p)) =>
                    \A i \in 1..Len(pre) :
                       out.frames[i] = <<IF RLt(ROne, p) THEN RDiv(pre[i], p) ELSE pre[i]>>

\* three stems were mixed, one of them shorter than the output, and at the
\* last index, past that stem's end, the mean over all three is not zero
C4_Witness ==
    /\ StemsReturned
    /\ Len(input.stems) = 3
    /\ \E k \in 1..3 : Len(StemFile(k).frames) < LongestStem
    /\ MeanAt(LongestStem) # RZero
    /\ fs[input.out_path].frames[LongestStem] = <<MeanAt(LongestStem)>>

\* C5: a call with fewer than 2 stems raises ValueError without reading any
\* stem and leaves the filesystem, out_path included, as it was.
C5_TooFewStems ==
    [][(pc = "call" /\ input.op = "mix_stems" /\ Len(input.stems) < 2) =>
          /\ ret'.kind = "raise"
          /\ ret'.exc = "ValueError"
          /\ reads' = <<>>
          /\ fs' = fs]_vars

\* a call with one stem raised, read nothing and left the earlier file at out_path
C5_Witness ==
    /\ StemsDone
    /\ Len(input.stems) = 1
    /\ ret.kind = "raise"
    /\ reads = <<>>
    /\ fs[input.out_path] = OldMix

\* C6: given at least 2 readable stems, mix_stems raises ValueError exactly
\* when two of the stems differ in sample rate, and then out_path keeps what
\* it held.
C6_RaisesIffRatesDiffer ==
    (StemsDone /\ Len(input.stems) >= 2) =>
        /\ (ret.kind = "raise" /\ ret.exc = "ValueError") <=> RatesDiffer
        /\ RatesDiffer => fs[input.out_path] \in {NoFile, OldMix}

\* the per-sample mean of the stems, before normalization
StemMean == Tab(LAMBDA i : MeanAt(i), LongestStem)

\* the mono samples written at out_path
WrittenMono == Tab(LAMBDA i : fs[input.out_path].frames[i][1], Len(fs[input.out_path].frames))

\* C15: when mix_stems returns, with peak the largest magnitude of the
\* per-sample mean: if peak > 1.0 every written sample is the mean divided
\* by peak and the largest written magnitude is exactly 1.0 (not 0.99); if
\* peak <= 1.0 the written samples are the mean, unchanged.
C15_StemsPeakNormalization ==
    StemsReturned =>
        \A pre \in {StemMean}, out \in {WrittenMono} :
            /\ Len(out) = Len(pre)
            /\ \A peak \in {RAbs(pre[i]) : i \in 1..Len(pre)} :
                 IsPeak(peak, {pre[i] : i \in 1..Len(pre)}) =>
                    IF RLt(ROne, peak)
                    THEN /\ \A i \in 1..Len(pre) : RMul(out[i], peak) = pre[i]
                         /\ IsPeak(ROne, {out[i] : i \in 1..Len(out)})
                    ELSE out = pre

\* a returned mix whose mean peaked above 1.0 and was brought to a peak of 1.0
C15_Witness ==
    /\ StemsReturned
    /\ \E i \in 1..Len(StemMean) : RLt(ROne, RAbs(StemMean[i]))
    /\ \E i, j \in 1..Len(StemMean) : RAbs(StemMean[i]) # RAbs(StemMean[j])
    /\ WrittenMono # StemMean
    /\ IsPeak(ROne, {WrittenMono[i] : i \in 1..Len(WrittenMono)})

(***************************************************************************)
(* Properties of aggregate_style_stats and build_style_profile (SpecStyle).*)
(***************************************************************************)
StyleDone == pc = "done" /\ input.op \in {"aggregate_style_stats", "build_style_profile"}
AggregateDone == pc = "done" /\ input.op = "aggregate_style_stats"
Features == input.features
TempoAt(i) == Features[i]["tempo"]

\* the rearrangements of a list of n elements
Rearrangements(n) == {p \in [1..n -> 1..n] : \A i, j \in 1..n : p[i] = p[j] => i = j}

\* every feature carries the same, non-empty, set of bands
Homogeneous(features) ==
    /\ features # <<>>
    /\ band_keys(features[1]) # {}
    /\ \A i \in 1..Len(features) : band_keys(features[i]) = band_keys(features[1])

\* C8: when aggregate_style_stats returns, tempo_range is [the least tempo,
\* the greatest tempo], tempo_mean times the number of features is the sum
\* of the tempos, tempo_range[0] <= tempo_mean <= tempo_range[1], and the
\* call on any rearrangement of the list, where it returns, returns the same
\* tempo_range and tempo_mean; it returns for every non-empty list whose
\* features share one non-empty set of bands.
C8_TempoRangeAndMean ==
    AggregateDone =>
        /\ Homogeneous(Features) => ret.kind = "return"
        /\ ret.kind = "return" =>
             \A n \in {Len(Features)}, lo \in {ret.value.tempo_range[1]},
                hi \in {ret.value.tempo_range[2]}, mean \in {ret.value.tempo_mean} :
                /\ n >= 1
                /\ Len(ret.value.tempo_range) = 2
                /\ \E i \in 1..n : TempoAt(i) = lo
                /\ \E i \in 1..n : TempoAt(i) = hi
                /\ \A i \in 1..n : RLe(lo, TempoAt(i)) /\ RLe(TempoAt(i), hi)
                /\ RMul(mean, RInt(n)) = RSum(Tab(LAMBDA i : TempoAt(i), n))
                /\ RLe(lo, mean) /\ RLe(mean, hi)
                /\ \A p \in Rearrangements(n) :
                     \A r \in {aggregate_style_stats(Tab(LAMBDA i : Features[p[i]], n))} :
                        r.kind = "return" =>
                          /\ r.value.tempo_range = <<lo, hi>>
                          /\ r.value.tempo_mean = mean

\* three features whose greatest tempo comes first and least tempo second
\* gave the range [least, greatest] and a mean strictly inside it
C8_Witness ==
    /\ AggregateDone
    /\ ret.kind = "return"
    /\ Len(Features) = 3
    /\ TempoAt(1) = RInt(120)
    /\ TempoAt(2) = RInt(100)
    /\ ret.value.tempo_range = <<RInt(100), RInt(120)>>
    /\ RLt(RInt(100), ret.value.tempo_mean)
    /\ RLt(ret.value.tempo_mean, RInt(120))

\* C9: both functions raise ValueError, and so return no profile, for an
\* empty feature list and for a list whose first feature has no band_energy
\* key or an empty band_energy dict.
C9_RejectsMissingBands ==
    (StyleDone /\ (Features = <<>> \/ band_keys(Features[1]) = {})) =>
        /\ ret.kind = "raise"
        /\ ret.exc = "ValueError"

\* build_style_profile raised ValueError on a list whose first feature has
\* no band_energy although a later feature has one
C9_Witness ==
    /\ pc = "done"
    /\ input.op = "build_style_profile"
    /\ Len(Features) >= 2
    /\ "band_energy" \notin DOMAIN Features[1]
    /\ band_keys(Features[2]) # {}
    /\ ret.kind = "raise"
    /\ ret.exc = "ValueError"

\* some feature lacks a band that the first feature has
LacksBand ==
    /\ Features # <<>>
    /\ \E i \in 1..Len(Features) : ~(band_keys(Features[1]) \subseteq band_keys(Features[i]))

\* C10: when aggregate_style_stats returns, energy_profile has the bands of
\* the first feature and, for each, the sum over all features of that band's
\* value divided by the number of features; when some feature lacks a band
\* of the first feature the call raises and returns no profile.
C10_BandMeansOrError ==
    AggregateDone =>
        /\ LacksBand => ret.kind = "raise"
        /\ ret.kind = "return" =>
             /\ DOMAIN ret.value.energy_profile = band_keys(Features[1])
             /\ \A band \in band_keys(Features[1]) :
                  /\ \A i \in 1..Len(Features) : band \in band_keys(Features[i])
                  /\ RMul(ret.value.energy_profile[band], RInt(Len(Features)))
                       = RSum(Tab(LAMBDA i : Features[i]["band_energy"][band], Len(Features)))

\* three features, the middle one without the first one's "high" band: KeyError
C10_Witness ==
    /\ AggregateDone
    /\ Len(Features) = 3
    /\ "high" \in band_keys(Features[1])
    /\ "high" \notin band_keys(Features[2])
    /\ "low" \in band_keys(Features[2])
    /\ "high" \in band_keys(Features[3])
    /\ ret.kind = "raise"
    /\ ret.exc = "KeyError"

\* some feature's band set differs from the first feature's
BandSetsDiffer ==
    /\ Features # <<>>
    /\ \E i \in 1..Len(Features) : band_keys(Features[i]) # band_keys(Features[1])

\* C11: whenever aggregate_style_stats returns, the keys of energy_profile
\* are the bands of the first feature and every feature has exactly that
\* band set; a list in which some feature's band set differs from the
\* first's (extra bands included) makes the call raise.
C11_SharedBandSet ==
    AggregateDone =>
        /\ ret.kind = "return" =>
             /\ DOMAIN ret.value.energy_profile = band_keys(Features[1])
             /\ \A i \in 1..Len(Features) : band_keys(Features[i]) = band_keys(Features[1])
        /\ BandSetsDiffer => ret.kind = "raise"

(***************************************************************************)
(* Properties of _to_stereo (SpecStereo).                                  *)
(***************************************************************************)
StereoDone == pc = "done" /\ input.op = "_to_stereo"

\* C7: _to_stereo returns an (N, 2) buffer of the input's length N; a 1-D
\* input and a single-channel 2-D input give both channels equal to the
\* input, a wider input gives its first two channels in order, and a
\* 2-channel input is returned as it is.
C7_ToStereo ==
    StereoDone =>
        LET in  == input.data
            out == ret.value
        IN  /\ ret.kind = "return"
            /\ out.ndim = 2
            /\ out.cols = 2
            /\ Len(out.data) = Len(in.data)
            /\ \A i \in 1..Len(in.data) :
                 /\ Len(out.data[i]) = 2
                 /\ in.ndim = 1 => out.data[i] = <<in.data[i], in.data[i]>>
                 /\ (in.ndim = 2 /\ in.cols = 1) =>
                        out.data[i] = <<in.data[i][1], in.data[i][1]>>
                 /\ (in.ndim = 2 /\ in.cols >= 2) =>
                        out.data[i] = <<in.data[i][1], in.data[i][2]>>

\* a wide buffer, whose third channel differs from its second, was reduced
C7_Witness ==
    /\ StereoDone
    /\ input.data.ndim = 2
    /\ input.data.cols > 2
    /\ \E i \in 1..Len(input.data.data) :
         /\ input.data.data[i][3] # input.data.data[i][2]
         /\ ret.value.data[i] = <<input.data.data[i][1], input.data.data[i][2]>>

(***************************************************************************)
(* analysis/audio_analysis.py, analyze_track.  librosa is an external      *)
(* library: its answers (whether decoding and the transforms succeed, the  *)
(* tempo, the magnitude spectrogram) are inputs of the call, drawn from    *)
(* everything the library can answer.  np.abs(stft) has one row per        *)
(* frequency bin and one column per frame, all entries >= 0.               *)
(***************************************************************************)
\* lines 14-18: band -> (low, high) in Hz, high = None for "no upper bound"
FREQUENCY_BANDS ==
    [low  |-> [low |-> RInt(20),   high |-> RInt(250),  bounded |-> TRUE],
     mid  |-> [low |-> RInt(250),  high |-> RInt(2000), bounded |-> TRUE],
     high |-> [low |-> RInt(2000), high |-> RZero,      bounded |-> FALSE]]

\* stft.shape[0]: the frequency bins of the spectrogram (1 + n_fft/2 in
\* librosa; 5 bins stand for the 1025 of the default n_fft = 2048)
N_BINS == 5

\* line 40: n_fft = stft.shape[0] * 2 - 2
n_fft(shape0) == shape0 * 2 - 2

\* librosa.fft_frequencies(sr, n_fft): bin k (from 1) is at (k - 1) * sr / n_fft
fft_frequencies(sr, n) == Tab(LAMBDA k : Rat((k - 1) * sr, n), 1 + n \div 2)

\* the mask without the upper limit of the band
band_mask_no_upper(freqs, band) ==
    {k \in 1..Len(freqs) : RLe(FREQUENCY_BANDS[band].low, freqs[k])}

\* the mask with the upper limit of the band included
band_mask_closed_upper(freqs, band) ==
    {k \in 1..Len(freqs) :
        /\ RLe(FREQUENCY_BANDS[band].low, freqs[k])
        /\ FREQUENCY_BANDS[band].bounded => RLe(freqs[k], FREQUENCY_BANDS[band].high)}

\* lines 44-46: mask = freqs >= low; if high is not None: mask &= freqs < high
band_mask(freqs, band) ==
    {k \in 1..Len(freqs) :
        /\ RLe(FREQUENCY_BANDS[band].low, freqs[k])
        /\ FREQUENCY_BANDS[band].bounded => RLt(freqs[k], FREQUENCY_BANDS[band].high)}

\* the sum of the entries of the rows of magnitude selected by mask
RECURSIVE SumRows(_, _)
SumRows(magnitude, mask) ==
    IF mask = {} THEN RZero
    ELSE LET k == CHOOSE x \in mask : TRUE
         IN  RAdd(RSum(magnitude[k]), SumRows(magnitude, mask \ {k}))

\* lines 21-24, _mean_magnitude: 0.0 for an empty mask, else the mean of
\* the selected rows over all their frames
mean_magnitude(magnitude, mask) ==
    IF mask = {} THEN RZero
    ELSE RDiv(SumRows(magnitude, mask),
              RInt(Cardinality(mask) * Len(magnitude[CHOOSE x \in mask : TRUE])))

\* librosa.load(path, sr=None, mono=True): the samples averaged over the
\* channels, at the file's own rate
librosa_load(f) == load_wave(f)

\* the check passing for every path
path_exists_unchecked(fsys, path) == TRUE

\* line 32: audio_path.exists()
path_exists(fsys, path) == fsys[path].exists

\* lines 27-55: the whole call; calls lists the librosa functions entered
analyze_track(fsys, a) ==
    LET f == fsys[a.path]
        loaded == librosa_load(f)
        y == loaded[1]
        sr == loaded[2]
        magnitude == a.librosa.magnitude
        freqs == fft_frequencies(sr, n_fft(Len(magnitude)))
        failed(step) == a.librosa.fails = step
        error == Raise("LibrosaError", "raised inside librosa")
    IN  IF ~path_exists(fsys, a.path)
        THEN [ret |-> Raise("FileNotFoundError", "Audio file not found"), calls |-> <<>>]
        ELSE IF failed("load") \/ ~Readable(f)
        THEN [ret |-> error, calls |-> <<"load">>]
        ELSE IF failed("beat_track")
        THEN [ret |-> error, calls |-> <<"load", "beat_track">>]
        ELSE IF failed("stft")
        THEN [ret |-> error, calls |-> <<"load", "beat_track", "stft">>]
        ELSE [ret |-> Return([tempo |-> a.librosa.tempo,
                              duration |-> Rat(Len(y), sr),
                              band_energy |->
                                 [band \in DOMAIN FREQUENCY_BANDS |->
                                     mean_magnitude(magnitude, band_mask(freqs, band))]]),
              calls |-> <<"load", "beat_track", "stft", "fft_frequencies">>]

(***************************************************************************)
(* SpecAnalyze: one call of analyze_track on a path that holds a readable  *)
(* file or nothing.                                                        *)
(***************************************************************************)
\* rates that put the Nyquist frequency below, inside and above the bands
AnalysisRates == {100, 1000, 8000}

\* the files analysed: mono or stereo constant waves of 0..MaxLen frames
AnalysisFiles ==
    {File(sr, k, Tab(LAMBDA i : Tab(LAMBDA c : ROne, k), n)) :
        sr \in AnalysisRates, k \in {1, 2}, n \in 0..MaxLen}

\* the tempo estimates of beat_track
BeatTempos == {RZero, RInt(120)}

\* one frame of the spectrogram: flat at some level, or a single peak
MagnitudeFrames ==
    {Tab(LAMBDA k : v, N_BINS) : v \in {RZero, <<1, 2>>}}
    \cup {Tab(LAMBDA k : IF k = b THEN RInt(3) ELSE <<1, 2>>, N_BINS) : b \in 1..N_BINS}

\* the frames of a signal of n samples: librosa's centred stft yields
\* 1 + n // hop_length frames, hop_length = n_fft // 4
FrameCount(n) == 1 + n \div (n_fft(N_BINS) \div 4)

\* the matrix (bins x frames) with the given frames as columns
Spectrogram(frames) == Tab(LAMBDA k : Tab(LAMBDA t : frames[t][k], Len(frames)), N_BINS)

\* what librosa answers for a file: a failing step, or a tempo and a spectrogram
LibrosaAnswers(f) ==
    {[fails |-> step, tempo |-> RZero, magnitude |-> Spectrogram(<<Tab(LAMBDA k : RZero, N_BINS)>>)] :
        step \in {"load", "beat_track", "stft"}}
    \cup {[fails |-> "none", tempo |-> t, magnitude |-> Spectrogram(fr)] :
            t \in BeatTempos, fr \in SeqsOf(MagnitudeFrames, FrameCount(Len(f.frames)))}

TrackPath == "track.wav"

InitAnalyze ==
    /\ pc = "call"
    /\ \E f \in AnalysisFiles \cup {NoFile} :
         /\ fs = [p \in {TrackPath} |-> f]
         /\ \E answer \in (IF f.exists THEN LibrosaAnswers(f)
                           ELSE LibrosaAnswers(File(100, 1, <<>>))) :
              input = [op |-> "analyze_track", path |-> TrackPath, librosa |-> answer]
    /\ ret = NoRet
    /\ reads = <<>>
    /\ backends = InitialBackends

AnalyzeTrack ==
    /\ pc = "call"
    /\ input.op = "analyze_track"
    /\ \E r \in {analyze_track(fs, input)} :
           /\ ret' = r.ret
           /\ reads' = r.calls
    /\ pc' = "done"
    /\ UNCHANGED <<input, fs, backends>>

NextAnalyze == AnalyzeTrack

SpecAnalyze == InitAnalyze /\ [][NextAnalyze]_vars

(***************************************************************************)
(* Properties of analyze_track (SpecAnalyze).                              *)
(***************************************************************************)
AnalyzeDone == pc = "done" /\ input.op = "analyze_track"

\* C12: analyze_track on a path where no file exists raises
\* FileNotFoundError without having entered any librosa function (no
\* decoding, tempo estimation or spectral computation) and returns nothing.
C12_MissingFileNotFound ==
    (AnalyzeDone /\ ~fs[input.path].exists) =>
        /\ ret.kind = "raise"
        /\ ret.exc = "FileNotFoundError"
        /\ reads = <<>>

\* the path was missing although librosa would have answered with a spectrogram
C12_Witness ==
    /\ AnalyzeDone
    /\ ~fs[input.path].exists
    /\ input.librosa.fails = "none"
    /\ ret.kind = "raise"
    /\ ret.exc = "FileNotFoundError"
    /\ reads = <<>>

\* the bins of the analysed file whose frequency lies in the band
BinsIn(band) ==
    {k \in 1..N_BINS :
        LET fq == Rat((k - 1) * fs[input.path].sr, 2 * (N_BINS - 1))
            b  == FREQUENCY_BANDS[band]
        IN  /\ RLe(b.low, fq)
            /\ band # "high" => RLt(fq, b.high)}

\* C13: whenever analyze_track returns, band_energy has exactly the keys
\* low, mid and high, every value is >= 0, a band holding no bin has the
\* value 0, and any other band has the mean of the magnitudes of its bins
\* over all frames.
C13_BandEnergy ==
    (AnalyzeDone /\ ret.kind = "return") =>
        /\ DOMAIN ret.value.band_energy = {"low", "mid", "high"}
        /\ \A band \in {"low", "mid", "high"} :
             \A v \in {ret.value.band_energy[band]}, bins \in {BinsIn(band)} :
                /\ RLe(RZero, v)
                /\ bins = {} => v = RZero
                /\ bins # {} =>
                     RMul(v, RInt(Cardinality(bins) * Len(input.librosa.magnitude[1])))
                       = SumRows(input.librosa.magnitude, bins)

\* a file whose Nyquist frequency is below 2000 Hz: no bin in the high band,
\* whose energy is 0 while the other bands have energy
C13_Witness ==
    /\ AnalyzeDone
    /\ ret.kind = "return"
    /\ fs[input.path].sr = 1000
    /\ BinsIn("high") = {}
    /\ ret.value.band_energy["high"] = RZero
    /\ RLt(RZero, ret.value.band_energy["low"])
    /\ RLt(RZero, ret.value.band_energy["mid"])
    /\ ret.value.band_energy["low"] # ret.value.band_energy["mid"]

(***************************************************************************)
(* SpecOutputs: one call of mix_backing_and_vocal or of mix_stems whose    *)
(* inputs may be missing or unreadable, with or without an earlier file at *)
(* out_path.                                                               *)
(***************************************************************************)
\* what an input path may hold: a mono audio file, nothing, or no audio
FailableFiles == {f \in AudioFiles : f.channels = 1} \cup {NoFile, Garbage}

\* what a stem path may hold: one frame at either rate, an empty file,
\* nothing, or no audio
FailableStems ==
    {File(sr, 1, <<<<ROne>>>>) : sr \in SampleRates}
    \cup {File(DEFAULT_RATE, 1, <<>>), NoFile, Garbage}

InitOutputsMix ==
    /\ input \in {[op |-> "mix_backing_and_vocal", backing_path |-> "backing.wav",
                   vocal_path |-> "vocal.wav", out_path |-> "mix.wav",
                   vocal_gain_db |-> db] : db \in GainDbs}
    /\ fs \in {[p \in MixPaths |->
                  IF p = "backing.wav" THEN b ELSE IF p = "vocal.wav" THEN v ELSE old] :
                  b \in FailableFiles, v \in FailableFiles, old \in {NoFile, OldMix}}

InitOutputsStems ==
    \E files \in SeqsUpTo(FailableStems, MaxStems), old \in {NoFile, OldMix} :
         /\ input = [op |-> "mix_stems",
                     stems |-> Tab(LAMBDA k : StemPath(k), Len(files)),
                     out_path |-> OutPath]
         /\ fs = StemFs(files, old)

InitOutputs ==
    /\ pc = "call"
    /\ InitOutputsMix \/ InitOutputsStems
    /\ ret = NoRet
    /\ reads = <<>>
    /\ backends = InitialBackends

NextOutputs == MixBackingAndVocal \/ MixStems

SpecOutputs == InitOutputs /\ [][NextOutputs]_vars

(***************************************************************************)
(* Properties of the output file of both mixers (SpecOutputs).             *)
(***************************************************************************)
\* C14: a call of mix_stems or mix_backing_and_vocal that raises (missing
\* or unreadable input, too few stems, differing sample rates, or a failing
\* numeric step) leaves the whole filesystem as it was: out_path is neither
\* created nor modified; a call changes the filesystem only at out_path and
\* only when it returns.
C14_WriteIsLast ==
    [][/\ ret'.kind = "raise" => fs' = fs
       /\ \A p \in DOMAIN fs : p # input.out_path => fs'[p] = fs[p]
       /\ fs' # fs => ret' = Return(input.out_path)]_vars

\* a mixer call failed on a missing input after reading another one, and
\* the earlier file at out_path is still there
C14_Witness ==
    /\ pc = "done"
    /\ ret.kind = "raise"
    /\ Len(reads) = 2
    /\ Readable(fs[reads[1]])
    /\ ~fs[reads[2]].exists
    /\ fs[input.out_path] = OldMix

(***************************************************************************)
(* SpecFixture: mix_stems on the two-stem fixture of the tests, stem_a     *)
(* twice as long as stem_b (1600 and 800 samples in the test), stem_a      *)
(* holding 0.5 and stem_b -0.5 throughout, both at one sample rate.        *)
(***************************************************************************)
MaxHalf == 12      \* samples of stem_b; stem_a has twice as many

FixtureRates == {16000} \cup SampleRates

InitFixture ==
    /\ pc = "call"
    /\ \E n \in 1..MaxHalf, sr \in FixtureRates, old \in {NoFile, OldMix} :
         /\ input = [op |-> "mix_stems", stems |-> <<StemPath(1), StemPath(2)>>,
                     out_path |-> OutPath, half |-> n]
         /\ fs = StemFs(<<File(sr, 1, Tab(LAMBDA i : <<(<<1, 2>>)>>, 2 * n)),
                          File(sr, 1, Tab(LAMBDA i : <<(<<-1, 2>>)>>, n))>>, old)
    /\ ret = NoRet
    /\ reads = <<>>
    /\ backends = InitialBackends

NextFixture == MixStems

SpecFixture == InitFixture /\ [][NextFixture]_vars

(***************************************************************************)
(* Properties of mix_stems on the fixture (SpecFixture).                   *)
(***************************************************************************)
FixtureDone == pc = "done" /\ input.op = "mix_stems"

\* C16 as stated: on the fixture the output has the length of stem_a, its
\* first half (where both stems have data) is 0.0 and its second half
\* (where stem_b is only padding) is 0.0 as well.
C16_FixtureAllZero ==
    FixtureDone =>
        /\ ret.kind = "return"
        /\ Len(fs[OutPath].frames) = 2 * input.half
        /\ \A i \in 1..input.half : fs[OutPath].frames[i] = <<RZero>>
        /\ \A i \in (input.half + 1)..(2 * input.half) : fs[OutPath].frames[i] = <<RZero>>

\* C16, amended: on the fixture the output has the length of stem_a, its
\* first half is 0.0 = (0.5 - 0.5) / 2 and its second half, where stem_b is
\* only padding, is 0.25 = (0.5 + 0) / 2; it is mono and at the stems' rate.
C16_FixtureHalfQuarter ==
    FixtureDone =>
        /\ ret = Return(OutPath)
        /\ fs[OutPath].channels = 1
        /\ fs[OutPath].sr = fs[StemPath(1)].sr
        /\ Len(fs[OutPath].frames) = 2 * input.half
        /\ \A i \in 1..input.half : fs[OutPath].frames[i] = <<RZero>>
        /\ \A i \in (input.half + 1)..(2 * input.half) : fs[OutPath].frames[i] = <<(<<1, 4>>)>>

\* the fixture at 16000 Hz with the longest stems of the model was mixed
C16_Witness ==
    /\ FixtureDone
    /\ ret.kind = "return"
    /\ input.half = MaxHalf
    /\ fs[StemPath(1)].sr = 16000
    /\ Len(fs[OutPath].frames) = 2 * MaxHalf
    /\ fs[OutPath].frames[1] = <<RZero>>
    /\ fs[OutPath].frames[2 * MaxHalf] = <<(<<1, 4>>)>>

(***************************************************************************)
(* generation/mixdown.py, create_final_mix                                 *)
(***************************************************************************)
\* the vocal left out of the stems
create_final_mix_accompaniment_only(fsys, a) ==
    mix_stems(fsys, [stems |-> a.accompaniment, out_path |-> a.out_path])

\* lines 16-26: stems = accompaniment + [vocals]; return mix_stems(stems, out_path)
create_final_mix(fsys, a) ==
    mix_stems(fsys, [stems |-> Append(a.accompaniment, a.vocals), out_path |-> a.out_path])

(***************************************************************************)
(* SpecFinal: one call of create_final_mix on up to MaxStems - 1           *)
(* accompaniment stems and a vocal file, all readable.                     *)
(***************************************************************************)
VocalsPath == "vocals.wav"

InitFinal ==
    /\ pc = "call"
    /\ \E cs \in SeqsUpTo(StemContents, MaxStems - 1), v \in StemContents, sr_v \in SampleRates :
         /\ input = [op |-> "create_final_mix",
                     accompaniment |-> Tab(LAMBDA k : StemPath(k), Len(cs)),
                     vocals |-> VocalsPath,
                     out_path |-> OutPath]
         /\ fs = [p \in {StemPath(k) : k \in 1..Len(cs)} \cup {VocalsPath, OutPath} |->
                    IF p = OutPath THEN NoFile
                    ELSE IF p = VocalsPath THEN File(sr_v, v.channels, v.frames)
                    ELSE LET c == cs[CHOOSE k \in 1..Len(cs) : StemPath(k) = p]
                         IN  File(DEFAULT_RATE, c.channels, c.frames)]
    /\ ret = NoRet
    /\ reads = <<>>
    /\ backends = InitialBackends

CreateFinalMix ==
    /\ pc = "call"
    /\ input.op = "create_final_mix"
    /\ \E r \in {create_final_mix(fs, input)} :
           /\ ret' = r.ret
           /\ fs' = r.fs
           /\ reads' = r.reads
    /\ pc' = "done"
    /\ UNCHANGED <<input, backends>>

NextFinal == CreateFinalMix

SpecFinal == InitFinal /\ [][NextFinal]_vars

(***************************************************************************)
(* Properties of create_final_mix (SpecFinal).                             *)
(***************************************************************************)
FinalDone == pc = "done" /\ input.op = "create_final_mix"

\* the k + 1 tracks of the call: the accompaniment in order, the vocal last
Tracks == Append(input.accompaniment, input.vocals)

\* the sum of all tracks at index i (0 for a track that has ended), divided
\* by their number
TrackMeanAt(i) ==
    RDiv(RSum(Tab(LAMBDA j : MonoAt(fs[Tracks[j]], i), Len(Tracks))), RInt(Len(Tracks)))

LongestTrack ==
    CHOOSE n \in {Len(fs[Tracks[j]].frames) : j \in 1..Len(Tracks)} :
        \A j \in 1..Len(Tracks) : Len(fs[Tracks[j]].frames) <= n

\* C17: create_final_mix with k >= 1 accompaniment stems ends as mix_stems
\* over the k + 1 files, accompaniment in order and vocal last, does: the
\* same outcome, the same files read in the same order and, when it
\* returns, a mono file whose every sample is the sum of all k + 1 tracks
\* divided by k + 1 (then divided by the peak of these means if that
\* exceeds 1.0); with k = 0 it raises ValueError and reads nothing.
C17_FinalMixIsStemMix ==
    FinalDone =>
        /\ Len(input.accompaniment) = 0 =>
             /\ ret.kind = "raise" /\ ret.exc = "ValueError"
             /\ reads = <<>>
             /\ ~fs[input.out_path].exists
        /\ \A r \in {mix_stems(fs, [stems |-> Tracks, out_path |-> input.out_path])} :
             /\ r.ret = ret
             /\ r.reads = reads
             /\ r.fs = fs
        /\ \A j \in 1..Len(reads) : reads[j] = Tracks[j]
        /\ ret.kind = "return" =>
             /\ Len(input.accompaniment) >= 1
             /\ reads = Tracks
             /\ \A pre \in {Tab(LAMBDA i : TrackMeanAt(i), LongestTrack)},
                   out \in {fs[input.out_path]} :
                  /\ out.channels = 1
                  /\ Len(out.frames) = Len(pre)
                  /\ \A p \in {RAbs(pre[i]) : i \in 1..Len(pre)} :
                       (\A i \in 1..Len(pre) : RLe(RAbs(pre[i]), p)) =>
                         \A i \in 1..Len(pre) :
                            out.frames[i] = <<IF RLt(ROne, p) THEN RDiv(pre[i], p) ELSE pre[i]>>

\* two accompaniment stems of 1.0 and a vocal of -2.0 cancel to 0.0: the
\* vocal weighs as much as each accompaniment stem
C17_Witness ==
    /\ FinalDone
    /\ ret.kind = "return"
    /\ Len(input.accompaniment) = 2
    /\ MonoAt(fs[StemPath(1)], 1) = ROne
    /\ MonoAt(fs[StemPath(2)], 1) = ROne
    /\ MonoAt(fs[VocalsPath], 1) = <<-2, 1>>
    /\ fs[input.out_path].frames[1] = <<RZero>>

(***************************************************************************)
(* vocals/vocal_synthesis.py, synthesize_vocals_placeholder.               *)
(* An optional argument is NoneVal or Some(v).  A call's effects are       *)
(* logged in `reads`, in order, as <<operation, path>> pairs.              *)
(***************************************************************************)
NoneVal == [some |-> FALSE]
Some(v) == [some |-> TRUE, v |-> v]

\* int(x) of a rational: truncation towards zero
IntOf(r) == IF r[1] >= 0 THEN r[1] \div r[2] ELSE -((-r[1]) \div r[2])

\* the output paths of the model with their parent directory and their
\* path.with_suffix(".json")
OutWavs == {"vocals/demo.wav", "vocals/long.wav"}
parent(path) == "vocals"
with_suffix_json(path) == IF path = "vocals/demo.wav" THEN "vocals/demo.json" ELSE "vocals/long.json"

Directory == [exists |-> TRUE, audio |-> FALSE, dir |-> TRUE]

\* path.parent.mkdir(parents=True, exist_ok=True)
mkdir_parents(fsys, dir) == IF fsys[dir].exists THEN fsys ELSE [fsys EXCEPT ![dir] = Directory]

\* sf.write(path, np.zeros(num_samples), sample_rate): a mono track of zeros
SilentFile(sr, num_samples) ==
    [exists |-> TRUE, audio |-> TRUE, sr |-> sr, channels |-> 1,
     silent |-> TRUE, num_samples |-> num_samples]

\* path.write_text(json.dumps(content))
JsonFile(content) == [exists |-> TRUE, audio |-> FALSE, json |-> content]

\* dict.get(key): None for a missing key
dict_get(d, key) == IF key \in DOMAIN d THEN Some(d[key]) ELSE NoneVal

PLACEHOLDER_RATE == 44100   \* line 81: sample_rate = 44100

\* the duration taken as given, without the floor of 0.1 s
placeholder_duration_unfloored(duration_seconds) ==
    IF duration_seconds.some THEN duration_seconds.v ELSE RInt(5)

\* line 82: max(0.1, float(duration_seconds) if duration_seconds is not None else 5.0)
placeholder_duration(duration_seconds) ==
    LET d == IF duration_seconds.some THEN duration_seconds.v ELSE RInt(5)
    IN  IF RLt(<<1, 10>>, d) THEN d ELSE <<1, 10>>

\* lines 66-98: the outcome, the filesystem left and the effects in order
synthesize_vocals_placeholder(fsys, a) ==
    LET duration == placeholder_duration(a.duration_seconds)
        num_samples == IntOf(RMul(RInt(PLACEHOLDER_RATE), duration))
        manifest == [melody_midi |-> a.melody_midi,
                     lyrics_title |-> dict_get(a.lyrics, "title"),
                     lyrics_theme |-> dict_get(a.lyrics, "theme"),
                     output_wav |-> a.out_wav,
                     reference_voice_dir |-> a.reference_voice_dir,
                     sample_rate |-> PLACEHOLDER_RATE,
                     duration |-> duration]
        fs1 == mkdir_parents(fsys, parent(a.out_wav))
        fs2 == [fs1 EXCEPT ![a.out_wav] = SilentFile(PLACEHOLDER_RATE, num_samples)]
        fs3 == [fs2 EXCEPT ![with_suffix_json(a.out_wav)] = JsonFile(manifest)]
    IN  [ret |-> Return(a.out_wav),
         fs |-> fs3,
         log |-> <<<<"mkdir", parent(a.out_wav)>>,
                   <<"sf.write", a.out_wav>>,
                   <<"write_text", with_suffix_json(a.out_wav)>>>>]

(***************************************************************************)
(* SpecPlaceholder: one call of synthesize_vocals_placeholder.             *)
(***************************************************************************)
\* None, zero, below and at the floor of 0.1 s, above it, and negative
Durations ==
    {NoneVal} \cup {Some(d) : d \in {RZero, <<1, 16>>, <<1, 10>>, <<1, 2>>, <<3, 2>>, <<-1, 1>>}}

LyricsDicts ==
    {[title |-> "Test Song", theme |-> "Dream"],
     [title |-> "AI Test"],
     [sections |-> <<>>]}

\* an engine's earlier output at out_wav
OldVocal == [exists |-> TRUE, audio |-> TRUE, sr |-> 8000, channels |-> 1,
             silent |-> FALSE, num_samples |-> 100]

\* line 180: the default of VOCAL_ENGINE_TMP
DEFAULT_TMP_DIR == "outputs/vocals/tmp"

VocalPaths ==
    {"vocals", DEFAULT_TMP_DIR} \cup OutWavs \cup {with_suffix_json(w) : w \in OutWavs}

\* the filesystems a vocal call may start in: the parent directory missing
\* (then nothing is in it) or present, with or without a file at out_wav
VocalFilesystems(out_wav) ==
    {[p \in VocalPaths |-> NoFile]}
    \cup {[p \in VocalPaths |->
             IF p = "vocals" THEN Directory ELSE IF p = out_wav THEN old ELSE NoFile] :
             old \in {NoFile, OldVocal}}

InitPlaceholder ==
    /\ pc = "call"
    /\ input \in {[op |-> "synthesize_vocals_placeholder", melody_midi |-> "melody.mid",
                   lyrics |-> l, out_wav |-> w, reference_voice_dir |-> r,
                   duration_seconds |-> d] :
                    l \in LyricsDicts, w \in OutWavs, r \in {NoneVal, Some("voices")},
                    d \in Durations}
    /\ fs \in VocalFilesystems(input.out_wav)
    /\ ret = NoRet
    /\ reads = <<>>
    /\ backends = InitialBackends

SynthesizeVocalsPlaceholder ==
    /\ pc = "call"
    /\ input.op = "synthesize_vocals_placeholder"
    /\ \E r \in {synthesize_vocals_placeholder(fs, input)} :
           /\ ret' = r.ret
           /\ fs' = r.fs
           /\ reads' = r.log
    /\ pc' = "done"
    /\ UNCHANGED <<input, backends>>

NextPlaceholder == SynthesizeVocalsPlaceholder

SpecPlaceholder == InitPlaceholder /\ [][NextPlaceholder]_vars

(***************************************************************************)
(* Properties of synthesize_vocals_placeholder (SpecPlaceholder).          *)
(***************************************************************************)
PlaceholderDone == pc = "done" /\ input.op = "synthesize_vocals_placeholder"

\* d = max(0.1, duration_seconds), 5.0 for None
ClaimedDuration ==
    IF ~input.duration_seconds.some THEN RInt(5)
    ELSE RMax(<<1, 10>>, input.duration_seconds.v)

\* the position of an effect in the log of the call, 0 if it is not there
PositionOf(effect) ==
    IF \E i \in 1..Len(reads) : reads[i] = effect
    THEN CHOOSE i \in 1..Len(reads) : reads[i] = effect
    ELSE 0

\* C20: for every duration_seconds the call returns out_wav, the parent
\* directory exists, out_wav holds a mono all-zero track at 44100 Hz of
\* int(44100 * d) samples with d = max(0.1, duration_seconds) (5.0 for
\* None), the .json beside it records melody_midi, the lyrics' title and
\* theme, the output path, the sample rate and d, and the audio was written
\* before the manifest.
C20_PlaceholderOutputs ==
    PlaceholderDone =>
        /\ ret = Return(input.out_wav)
        /\ fs[parent(input.out_wav)] = Directory
        /\ \A d \in {ClaimedDuration} :
             /\ fs[input.out_wav] = SilentFile(44100, IntOf(RMul(RInt(44100), d)))
             /\ \A m \in {fs[with_suffix_json(input.out_wav)]} :
                  /\ m.exists
                  /\ m.json.melody_midi = input.melody_midi
                  /\ m.json.lyrics_title = dict_get(input.lyrics, "title")
                  /\ m.json.lyrics_theme = dict_get(input.lyrics, "theme")
                  /\ m.json.output_wav = input.out_wav
                  /\ m.json.sample_rate = 44100
                  /\ m.json.duration = d
        /\ PositionOf(<<"sf.write", input.out_wav>>) > 0
        /\ PositionOf(<<"sf.write", input.out_wav>>)
             < PositionOf(<<"write_text", with_suffix_json(input.out_wav)>>)

\* a duration below the floor, in a missing directory: 4410 samples of silence
C20_Witness ==
    /\ PlaceholderDone
    /\ input.duration_seconds = Some(<<1, 16>>)
    /\ fs[input.out_wav].num_samples = 4410
    /\ fs[input.out_wav].silent
    /\ fs[with_suffix_json(input.out_wav)].json.duration = <<1, 10>>
    /\ reads[1] = <<"mkdir", "vocals">>

(***************************************************************************)
(* vocals/vocal_synthesis.py, _run_external_engine, _synthesize_with_      *)
(* diffsinger and synthesize_vocals.                                       *)
(* The environment variables of the process (a.env) and what the external  *)
(* program does when run (a.engine) are inputs of the call.  A command     *)
(* template is a sequence of words, each a literal or a {field}.           *)
(***************************************************************************)
Lit(text) == [text |-> text]
Field(name) == [field |-> name]
Num(r) == [number |-> r]

\* a file of size 0
EmptyFile == [exists |-> TRUE, audio |-> FALSE, empty |-> TRUE]

\* what an engine that works leaves at out_wav
EngineVocal == [exists |-> TRUE, audio |-> TRUE, sr |-> 22050, channels |-> 1,
                silent |-> FALSE, num_samples |-> 1000]

\* line 162: not out_wav.exists() or out_wav.stat().st_size == 0
missing_or_empty(f) == ~f.exists \/ "empty" \in DOMAIN f

\* `x or 5.0` of an optional duration: None and 0.0 are falsy
duration_or_default(duration_seconds) ==
    IF duration_seconds.some /\ duration_seconds.v # RZero
    THEN duration_seconds.v ELSE RInt(5)

\* lines 136-148: format_map
format_map(a, mode) ==
    [melody_midi |-> Lit(a.melody_midi),
     midi |-> Lit(a.melody_midi),
     melody |-> Lit(a.melody_midi),
     lyrics_json |-> Lit("lyrics.json"),
     lyrics_txt |-> Lit("lyrics.txt"),
     output_wav |-> Lit(a.out_wav),
     out_wav |-> Lit(a.out_wav),
     reference_voice_dir |->
        Lit(IF a.reference_voice_dir.some THEN a.reference_voice_dir.v ELSE ""),
     ref_dir |-> Lit(IF a.reference_voice_dir.some THEN a.reference_voice_dir.v ELSE ""),
     duration_seconds |-> Num(duration_or_default(a.duration_seconds)),
     mode |-> Lit(mode)]

\* the fields of a template that format_map lacks (str.format raises KeyError)
unknown_fields(template, map) ==
    {i \in 1..Len(template) :
        "field" \in DOMAIN template[i] /\ template[i].field \notin DOMAIN map}

\* lines 150-154: cmd_template.format(**format_map), split into words
format_command(template, map) ==
    Tab(LAMBDA i : IF "field" \in DOMAIN template[i] THEN map[template[i].field]
                   ELSE template[i],
        Len(template))

\* what the program leaves in the filesystem when it runs
engine_effect(fsys, a) ==
    IF a.engine.output = "audio" THEN [fsys EXCEPT ![a.out_wav] = EngineVocal]
    ELSE IF a.engine.output = "empty" THEN [fsys EXCEPT ![a.out_wav] = EmptyFile]
    ELSE fsys

\* lines 101-166, _run_external_engine: Return(TRUE / FALSE) or an
\* exception.  The temporary directory with lyrics.json and lyrics.txt is
\* gone when the function ends and is not shown in the filesystem.
run_external_engine(fsys, a, mode) ==
    LET cmd_template == a.env.VOCAL_ENGINE_CMD
        map == format_map(a, mode)
        command == format_command(cmd_template.v, map)
        ran == engine_effect(fsys, a)
    IN  IF ~cmd_template.some \/ cmd_template.v = <<>>
        THEN [ret |-> Raise("NotImplementedError", "VOCAL_ENGINE_CMD environment variable is not set."),
              fs |-> fsys, log |-> <<>>]
        ELSE IF unknown_fields(cmd_template.v, map) # {}
        THEN [ret |-> Raise("ValueError", "Missing placeholder in VOCAL_ENGINE_CMD template"),
              fs |-> fsys, log |-> <<>>]
        ELSE IF ~a.engine.starts
        THEN [ret |-> Raise("FileNotFoundError", "No such file or directory"),
              fs |-> fsys, log |-> <<<<"subprocess.run", command>>>>]
        ELSE IF a.engine.exit_code # 0
        THEN [ret |-> Return(FALSE), fs |-> ran, log |-> <<<<"subprocess.run", command>>>>]
        ELSE [ret |-> Return(~missing_or_empty(ran[a.out_wav])),
              fs |-> ran, log |-> <<<<"subprocess.run", command>>>>]

\* lines 191-200 and 237-246: out_wav on success, else the placeholder with
\* duration_seconds or 5.0; an exception of the engine passes through
engine_or_placeholder(r, a) ==
    IF r.ret.kind = "raise" THEN r
    ELSE IF r.ret.value THEN [ret |-> Return(a.out_wav), fs |-> r.fs, log |-> r.log]
    ELSE LET p == synthesize_vocals_placeholder(
                    r.fs, [a EXCEPT !.duration_seconds = Some(duration_or_default(@))])
         IN  [ret |-> p.ret, fs |-> p.fs, log |-> r.log \o p.log]

\* lines 169-200, _synthesize_with_diffsinger
synthesize_with_diffsinger(fsys, a) ==
    LET made == mkdir_parents(fsys, DEFAULT_TMP_DIR)
        r == engine_or_placeholder(run_external_engine(made, a, "diffsinger"), a)
    IN  [ret |-> r.ret, fs |-> r.fs, log |-> <<<<"mkdir", DEFAULT_TMP_DIR>>>> \o r.log]

\* the implementations the tests and callers register: impl_a writes a
\* track of its own at out_wav and returns out_wav, impl_b writes nothing
\* and returns another path
CustomImpls == {"impl_a", "impl_b"}

CustomVocal == [exists |-> TRUE, audio |-> TRUE, sr |-> 8000, channels |-> 1,
                silent |-> FALSE, num_samples |-> 100]

\* the positional arguments handed to an implementation (line 248)
impl_args(a) ==
    [melody_midi |-> a.melody_midi, lyrics |-> a.lyrics, out_wav |-> a.out_wav,
     reference_voice_dir |-> a.reference_voice_dir, duration_seconds |-> a.duration_seconds]

\* impl(melody_midi, lyrics, out_wav, reference_voice_dir, duration_seconds)
call_impl(impl, fsys, a) ==
    LET entry == <<<<"impl", [impl |-> impl, args |-> impl_args(a)]>>>>
    IN  IF impl = "synthesize_vocals_placeholder"
        THEN LET p == synthesize_vocals_placeholder(fsys, a)
             IN  [ret |-> p.ret, fs |-> p.fs, log |-> entry \o p.log]
        ELSE IF impl = "impl_a"
        THEN [ret |-> Return(a.out_wav),
              fs |-> [mkdir_parents(fsys, parent(a.out_wav)) EXCEPT ![a.out_wav] = CustomVocal],
              log |-> entry]
        ELSE [ret |-> Return("elsewhere.wav"), fs |-> fsys, log |-> entry]

\* the environment variable consulted before the backend argument
backend_name_env_first(a) ==
    IF a.env.VOCALS_BACKEND.some /\ a.env.VOCALS_BACKEND.v # "" THEN a.env.VOCALS_BACKEND.v
    ELSE IF a.backend.some /\ a.backend.v # "" THEN a.backend.v
    ELSE "placeholder"

\* line 215: backend or backend_name_env or "placeholder"
backend_name(a) ==
    IF a.backend.some /\ a.backend.v # "" THEN a.backend.v
    ELSE IF a.env.VOCALS_BACKEND.some /\ a.env.VOCALS_BACKEND.v # "" THEN a.env.VOCALS_BACKEND.v
    ELSE "placeholder"

\* line 216: backend_name == "placeholder" and duration_seconds is None
requires_duration(name, a) == name = "placeholder" /\ ~a.duration_seconds.some

\* lines 203-248, synthesize_vocals with the registry bk
synthesize_vocals(bk, fsys, a) ==
    LET name == backend_name(a)
        impl == bk[name]
    IN  IF requires_duration(name, a)
        THEN [ret |-> Raise("ValueError", "duration_seconds is required for the placeholder vocal backend."),
              fs |-> fsys, log |-> <<>>]
        ELSE IF impl # "none" THEN call_impl(impl, fsys, a)
        ELSE IF name = "diffsinger" THEN synthesize_with_diffsinger(fsys, a)
        ELSE IF name \in {"ai", "voice_clone"}
        THEN engine_or_placeholder(run_external_engine(fsys, a, name), a)
        ELSE [ret |-> Raise("ValueError", "Unknown vocal backend"), fs |-> fsys, log |-> <<>>]

\* a registration that does not replace an earlier one for the name
register_vocal_backend_keep_first(bk, name, backend) ==
    IF bk[name] = "none" THEN [bk EXCEPT ![name] = backend] ELSE bk

\* lines 25-29, register_vocal_backend
register_vocal_backend(bk, name, backend) == [bk EXCEPT ![name] = backend]

(***************************************************************************)
(* SpecEngine: one call of synthesize_vocals that resolves to one of the   *)
(* subprocess backends, with nothing registered for it.                    *)
(***************************************************************************)
SubprocessBackends == {"diffsinger", "ai", "voice_clone"}

\* VOCAL_ENGINE_CMD: unset, empty, a template over known fields, and one
\* with a field format_map does not have
OkTemplate == <<Lit("engine"), Field("melody_midi"), Field("lyrics_txt"), Field("out_wav"),
                Field("duration_seconds"), Field("mode")>>
BadTemplate == <<Lit("engine"), Field("midi"), Field("output")>>
EngineCmds == {NoneVal, Some(<<>>), Some(OkTemplate), Some(BadTemplate)}

\* what the program does: whether it can be started, its exit status, and
\* what it leaves at out_wav
EngineBehaviours ==
    [starts : BOOLEAN, exit_code : {0, 1}, output : {"none", "empty", "audio"}]

SynthesisArgs(backends_arg, env_backends, cmds, behaviours, durations, wavs) ==
    {[op |-> "synthesize_vocals", melody_midi |-> "melody.mid",
      lyrics |-> [title |-> "Test Song", theme |-> "Dream"],
      out_wav |-> w, backend |-> b, reference_voice_dir |-> NoneVal,
      duration_seconds |-> d,
      env |-> [VOCALS_BACKEND |-> eb, VOCAL_ENGINE_CMD |-> c],
      engine |-> e] :
        b \in backends_arg, eb \in env_backends, c \in cmds, e \in behaviours,
        d \in durations, w \in wavs}

InitEngine ==
    /\ pc = "call"
    /\ input \in SynthesisArgs({NoneVal}, {Some(n) : n \in SubprocessBackends},
                               EngineCmds, EngineBehaviours,
                               {NoneVal, Some(RZero), Some(<<1, 16>>), Some(<<3, 2>>)},
                               {"vocals/demo.wav"})
                 \cup SynthesisArgs({Some("ai")}, {NoneVal, Some("placeholder")},
                               EngineCmds, EngineBehaviours, {Some(<<3, 2>>)},
                               {"vocals/demo.wav"})
    /\ fs \in VocalFilesystems(input.out_wav)
    /\ ret = NoRet
    /\ reads = <<>>
    /\ backends = InitialBackends

SynthesizeVocals ==
    /\ input.op = "synthesize_vocals"
    /\ pc = "call"
    /\ \E r \in {synthesize_vocals(backends, fs, input)} :
           /\ ret' = r.ret
           /\ fs' = r.fs
           /\ reads' = r.log
    /\ pc' = "done"
    /\ UNCHANGED <<input, backends>>

NextEngine == SynthesizeVocals

SpecEngine == InitEngine /\ [][NextEngine]_vars

(***************************************************************************)
(* Properties of the subprocess backends (SpecEngine).                     *)
(***************************************************************************)
EngineDone == pc = "done" /\ input.op = "synthesize_vocals"

\* the external engine failed: no command configured, a template with an
\* unknown field, a command that cannot be started, a non-zero exit status,
\* or no (or an empty) file at out_wav after the run
EngineFailed ==
    \/ ~input.env.VOCAL_ENGINE_CMD.some
    \/ input.env.VOCAL_ENGINE_CMD.v = <<>>
    \/ input.env.VOCAL_ENGINE_CMD.v = BadTemplate
    \/ ~input.engine.starts
    \/ input.engine.exit_code # 0
    \/ input.engine.output # "audio"

\* C18: whenever the external engine of a subprocess backend fails, the
\* call raises nothing and returns out_wav, which holds an all-zero 44100 Hz
\* track of int(44100 * d) samples, d = duration_seconds or 5.0.
C18_FallsBackOnAnyFailure ==
    (EngineDone /\ EngineFailed) =>
        /\ ret = Return(input.out_wav)
        /\ fs[input.out_wav]
             = SilentFile(44100, IntOf(RMul(RInt(44100), duration_or_default(input.duration_seconds))))

(***************************************************************************)
(* SpecRegistry: a process that registers backends and synthesizes vocals  *)
(* any number of times, in any order.  _VOCAL_BACKENDS (backends) and the  *)
(* filesystem live across the calls; pc = "call" while a call chosen by    *)
(* the caller has not run yet.                                             *)
(***************************************************************************)
RegisteredNames == {"placeholder", "diffsinger", "test-backend"}

RegisterArgs ==
    {[op |-> "register_vocal_backend", name |-> n, backend |-> impl] :
        n \in RegisteredNames, impl \in CustomImpls}

RegistryCalls ==
    SynthesisArgs({NoneVal, Some("placeholder"), Some("diffsinger"), Some("test-backend")},
                  {NoneVal, Some("test-backend")},
                  {NoneVal, Some(OkTemplate)},
                  {[starts |-> TRUE, exit_code |-> 0, output |-> "audio"],
                   [starts |-> TRUE, exit_code |-> 1, output |-> "none"]},
                  {NoneVal, Some(<<3, 2>>)},
                  {"vocals/demo.wav"})

InitRegistry ==
    /\ pc = "done"
    /\ input = [op |-> "import"]
    /\ fs = [p \in VocalPaths |-> NoFile]
    /\ ret = NoRet
    /\ reads = <<>>
    /\ backends = InitialBackends

\* the caller chooses the next call and its arguments
CallerInvokes ==
    /\ pc = "done"
    /\ input' \in RegisterArgs \cup RegistryCalls
    /\ pc' = "call"
    /\ ret' = NoRet
    /\ reads' = <<>>
    /\ UNCHANGED <<fs, backends>>

RegisterVocalBackend ==
    /\ input.op = "register_vocal_backend"
    /\ pc = "call"
    /\ backends' = register_vocal_backend(backends, input.name, input.backend)
    /\ ret' = Return(NoneVal)
    /\ pc' = "done"
    /\ UNCHANGED <<input, fs, reads>>

NextRegistry == CallerInvokes \/ RegisterVocalBackend \/ SynthesizeVocals

SpecRegistry == InitRegistry /\ [][NextRegistry]_vars

(***************************************************************************)
(* Properties of the backend registry (SpecRegistry).                      *)
(***************************************************************************)
\* a synthesize_vocals call is about to run and its resolved name has a
\* registered implementation of the caller
CallsRegistered ==
    /\ pc = "call"
    /\ input.op = "synthesize_vocals"
    /\ backends[backend_name(input)] \in CustomImpls

\* the step ran the implementation once with the five arguments, returned
\* what it returned, ran no external program and wrote no placeholder
InvokedOnce ==
    LET impl == backends[backend_name(input)]
    IN  /\ reads' = <<<<"impl", [impl |-> impl, args |-> impl_args(input)]>>>>
        /\ ret' = Return(IF impl = "impl_a" THEN input.out_wav ELSE "elsewhere.wav")
        /\ fs'[with_suffix_json(input.out_wav)] = fs[with_suffix_json(input.out_wav)]
        /\ fs'[input.out_wav] = (IF impl = "impl_a" THEN CustomVocal ELSE fs[input.out_wav])

\* C19 as stated: every synthesize_vocals call whose resolved name has a
\* registered implementation invokes it exactly once with the five
\* arguments and returns its value, with no engine and no placeholder.
C19_RegisteredAlwaysInvoked ==
    [][CallsRegistered => InvokedOnce]_vars

\* C19 amended: the same, except that a call resolved to "placeholder" with
\* duration_seconds None raises ValueError before the registry is consulted
\* and invokes nothing; register_vocal_backend(n, impl) replaces the entry
\* of n and keeps every other entry, and synthesize_vocals keeps them all.
C19_RegisteredInvokedUnlessNoDuration ==
    [][/\ (CallsRegistered /\ ~(backend_name(input) = "placeholder" /\ ~input.duration_seconds.some))
            => InvokedOnce
       /\ (CallsRegistered /\ backend_name(input) = "placeholder" /\ ~input.duration_seconds.some)
            => (ret'.kind = "raise" /\ ret'.exc = "ValueError" /\ reads' = <<>> /\ fs' = fs)
       /\ (pc = "call" /\ input.op = "register_vocal_backend")
            => /\ backends'[input.name] = input.backend
               /\ \A m \in BackendNames \ {input.name} : backends'[m] = backends[m]
       /\ (pc = "call" /\ input.op = "synthesize_vocals") => backends' = backends]_vars

\* a diffsinger call with an engine command configured came after a second
\* registration for the name and was served by the implementation
C19_Witness ==
    /\ pc = "done"
    /\ input.op = "synthesize_vocals"
    /\ backend_name(input) = "diffsinger"
    /\ input.env.VOCAL_ENGINE_CMD = Some(OkTemplate)
    /\ backends["diffsinger"] = "impl_b"
    /\ backends["placeholder"] = "impl_a"
    /\ fs[input.out_wav] = CustomVocal
    /\ ret = Return("elsewhere.wav")
    /\ reads = <<<<"impl", [impl |-> "impl_b", args |-> impl_args(input)]>>>>

(***************************************************************************)
(* The resample target length of mix_backing_and_vocal (SpecMix).          *)
(***************************************************************************)
VocalLength == Len(fs[input.vocal_path].frames)
BackingLength == Len(fs[input.backing_path].frames)
VocalRateDiffers == fs[input.vocal_path].sr # fs[input.backing_path].sr

\* round(vocal_length * backing_rate / vocal_rate)
RoundedLength ==
    RoundHalfEven(VocalLength * fs[input.backing_path].sr, fs[input.vocal_path].sr)

\* C25: when the two rates differ, the target length is the rounded value,
\* or the backing length when the rounded value is non-positive, and it is
\* at least 1 for every vocal length, backing length and pair of rates.
C25_TargetLenAtLeastOne ==
    (MixDone /\ VocalRateDiffers) =>
        \A t \in {target_len(VocalLength, BackingLength,
                             fs[input.backing_path].sr, fs[input.vocal_path].sr)} :
            /\ t = (IF RoundedLength <= 0 THEN BackingLength ELSE RoundedLength)
            /\ t >= 1

(***************************************************************************)
(* The bands of analyze_track as a partition of the frequency axis         *)
(* (SpecAnalyze).                                                          *)
(***************************************************************************)
\* the frequencies of the bins of the analysed file
BinFrequencies == fft_frequencies(fs[input.path].sr, n_fft(N_BINS))

\* the bands whose mask selects bin k
BandsOfBin(k) == {band \in DOMAIN FREQUENCY_BANDS : k \in band_mask(BinFrequencies, band)}

\* the sum of a band's magnitudes that its returned energy stands for
EnergySum(band) ==
    RMul(ret.value.band_energy[band],
         RInt(Cardinality(band_mask(BinFrequencies, band)) * Len(input.librosa.magnitude[1])))

\* C27: every bin at 20 Hz or above is selected by exactly one band, low
\* for [20,250), mid for [250,2000), high from 2000 on (a bin at exactly
\* 250 Hz only by mid, at exactly 2000 Hz only by high); every bin below
\* 20 Hz, the DC bin included, is selected by none, and the band energies
\* together account for the magnitudes of the bins at 20 Hz or above once
\* and for nothing else.
C27_BandsPartitionAxis ==
    (AnalyzeDone /\ ret.kind = "return") =>
        /\ \A k \in 1..N_BINS :
             \A fq \in {BinFrequencies[k]} :
                /\ RLt(fq, RInt(20)) => BandsOfBin(k) = {}
                /\ (RLe(RInt(20), fq) /\ RLt(fq, RInt(250))) => BandsOfBin(k) = {"low"}
                /\ (RLe(RInt(250), fq) /\ RLt(fq, RInt(2000))) => BandsOfBin(k) = {"mid"}
                /\ RLe(RInt(2000), fq) => BandsOfBin(k) = {"high"}
        /\ BandsOfBin(1) = {}
        /\ RAdd(EnergySum("low"), RAdd(EnergySum("mid"), EnergySum("high")))
             = SumRows(input.librosa.magnitude,
                       {k \in 1..N_BINS : RLe(RInt(20), BinFrequencies[k])})

\* a file with a bin at exactly 250 Hz that carries the spectral peak: the
\* peak is in the mid energy and not in the low energy, and the DC bin,
\* which has magnitude, is in neither
C27_Witness ==
    /\ AnalyzeDone
    /\ ret.kind = "return"
    /\ \E k \in 1..N_BINS : BinFrequencies[k] = RInt(250) /\ BandsOfBin(k) = {"mid"}
    /\ \A t \in 1..Len(input.librosa.magnitude[3]) :
          input.librosa.magnitude[3][t] = RInt(3) /\ input.librosa.magnitude[1][t] = <<1, 2>>
    /\ ret.value.band_energy["low"] = <<1, 2>>
    /\ RLt(<<1, 2>>, ret.value.band_energy["mid"])

(***************************************************************************)
(* SpecClip: one call of either mixer on readable inputs whose samples may *)
(* exceed full scale.                                                      *)
(***************************************************************************)
InitClip == InitMix \/ InitStems

NextClip == MixBackingAndVocal \/ MixStems

SpecClip == InitClip /\ [][NextClip]_vars

\* the samples of the file at out_path, all channels
WrittenSamples ==
    {fs[input.out_path].frames[i][c] :
        i \in 1..Len(fs[input.out_path].frames), c \in 1..fs[input.out_path].channels}

\* the samples of the input files of the call
InputSamples ==
    LET paths == IF input.op = "mix_stems" THEN {input.stems[k] : k \in 1..Len(input.stems)}
                 ELSE {input.backing_path, input.vocal_path}
    IN  UNION {{fs[p].frames[i][c] : i \in 1..Len(fs[p].frames), c \in 1..fs[p].channels} :
                   p \in paths}

\* C28: every sample of a mix written by mix_backing_and_vocal or by
\* mix_stems has absolute value <= 1.0, whatever the input samples, the
\* gain and the number of stems.
C28_NoWrittenSampleClips ==
    (pc = "done" /\ ret.kind = "return") =>
        \A x \in WrittenSamples : RLe(RAbs(x), ROne)

\* a written mix of inputs that exceed full scale
C28_Witness ==
    /\ pc = "done"
    /\ ret.kind = "return"
    /\ input.op = "mix_stems"
    /\ Len(input.stems) = 3
    /\ \A x \in InputSamples : RLt(ROne, RAbs(x))
    /\ \E x \in WrittenSamples : RAbs(x) = ROne

(***************************************************************************)
(* SpecResolve: one call of synthesize_vocals with every way of naming the *)
(* backend (argument, VOCALS_BACKEND, neither; empty strings included), in *)
(* a process that has or has not registered an implementation for          *)
(* "test-backend".                                                         *)
(***************************************************************************)
ResolveCalls ==
    SynthesisArgs({NoneVal, Some(""), Some("placeholder"), Some("ai"), Some("unknown")},
                  {NoneVal, Some(""), Some("diffsinger"), Some("test-backend"), Some("unknown")},
                  {NoneVal, Some(OkTemplate)},
                  {[starts |-> TRUE, exit_code |-> 0, output |-> "audio"]},
                  {NoneVal, Some(<<3, 2>>)},
                  {"vocals/demo.wav"})

InitResolve ==
    /\ pc = "call"
    /\ input \in ResolveCalls
    /\ fs \in VocalFilesystems(input.out_wav)
    /\ ret = NoRet
    /\ reads = <<>>
    /\ backends \in {InitialBackends,
                     register_vocal_backend(InitialBackends, "test-backend", "impl_a")}

NextResolve == SynthesizeVocals

SpecResolve == InitResolve /\ [][NextResolve]_vars

(***************************************************************************)
(* Properties of the backend name resolution (SpecResolve).                *)
(***************************************************************************)
\* the name as C26 words it: the argument if given, else the variable if set
NameIfGiven ==
    IF input.backend.some THEN input.backend.v
    ELSE IF input.env.VOCALS_BACKEND.some THEN input.env.VOCALS_BACKEND.v
    ELSE "placeholder"

\* the name with empty strings counting as not given and not set
NameIfNonEmpty ==
    IF input.backend.some /\ input.backend.v # "" THEN input.backend.v
    ELSE IF input.env.VOCALS_BACKEND.some /\ input.env.VOCALS_BACKEND.v # ""
         THEN input.env.VOCALS_BACKEND.v
    ELSE "placeholder"

IsRegistered(name) == name \in DOMAIN backends /\ backends[name] # "none"

RaisedValueError(msg) ==
    /\ ret' = Raise("ValueError", msg)
    /\ fs' = fs
    /\ reads' = <<>>

\* what a synthesize_vocals step shows when it handles the call under name
HandledAs(name) ==
    IF name = "placeholder" /\ ~input.duration_seconds.some
    THEN RaisedValueError("duration_seconds is required for the placeholder vocal backend.")
    ELSE IF IsRegistered(name)
    THEN reads'[1] = <<"impl", [impl |-> backends[name], args |-> impl_args(input)]>>
    ELSE IF name = "diffsinger"
    THEN reads'[1] = <<"mkdir", DEFAULT_TMP_DIR>>
    ELSE IF name \in {"ai", "voice_clone"}
    THEN IF input.env.VOCAL_ENGINE_CMD.some
         THEN /\ reads'[1][1] = "subprocess.run"
              /\ reads'[1][2][Len(reads'[1][2])] = Lit(name)
         ELSE ret'.kind = "raise" /\ ret'.exc = "NotImplementedError"
    ELSE RaisedValueError("Unknown vocal backend")

\* C26 as stated: the call is handled under the backend argument if given,
\* else under VOCALS_BACKEND if set, else as 'placeholder'; 'placeholder'
\* without a duration raises ValueError before anything is written, and a
\* name neither registered nor built in raises ValueError with no file
\* written and no command run.
C26_ResolvesGivenOrSet ==
    [][(pc = "call" /\ input.op = "synthesize_vocals") => HandledAs(NameIfGiven)]_vars

\* C26 amended: the same with the argument used if it is given and not
\* empty, else VOCALS_BACKEND if it is set and not empty, else 'placeholder'.
C26_ResolvesNonEmpty ==
    [][(pc = "call" /\ input.op = "synthesize_vocals") => HandledAs(NameIfNonEmpty)]_vars

\* no backend argument and VOCALS_BACKEND naming nothing known: ValueError,
\* the file already at out_wav left as it was
C26_Witness ==
    /\ pc = "done"
    /\ input.op = "synthesize_vocals"
    /\ ~input.backend.some
    /\ input.env.VOCALS_BACKEND = Some("unknown")
    /\ input.env.VOCAL_ENGINE_CMD.some
    /\ ret = Raise("ValueError", "Unknown vocal backend")
    /\ fs[input.out_wav] = OldVocal
    /\ reads = <<>>

(***************************************************************************)
(* vocals/vocal_synthesis.py, synthesize_vocals_external_engine.           *)
(* The command is one string handed to the shell; it is shown as the       *)
(* template's words with the fields replaced.                              *)
(***************************************************************************)
Resolved(path) == [resolved |-> path]

\* the path put in the command as it was given
resolve_path_as_given(path) == Lit(path)

\* Path.resolve(): the absolute path
resolve_path(path) == Resolved(path)

\* lines 47-52: resolved_paths
resolved_paths(a) ==
    [midi |-> resolve_path(a.melody_midi),
     lyrics |-> resolve_path(a.lyrics_txt),
     out |-> resolve_path(a.out_wav),
     ref_dir |-> IF a.voice_ref_dir.some THEN resolve_path(a.voice_ref_dir.v) ELSE Lit("")]

\* line 58: subprocess.run(command_str, shell=True, check=True)
shell_run(command) == <<"subprocess.run", [command |-> command, shell |-> TRUE, check |-> TRUE]>>

\* lines 32-63, synthesize_vocals_external_engine.  Under shell=True a
\* program that cannot be started is a non-zero exit status of the shell.
synthesize_vocals_external_engine(fsys, a) ==
    LET cmd_template == a.env.VOCAL_ENGINE_CMD
        made == mkdir_parents(fsys, parent(a.out_wav))
        map == resolved_paths(a)
        command == format_command(cmd_template.v, map)
        ran == engine_effect(made, a)
        mkdir == <<"mkdir", parent(a.out_wav)>>
    IN  IF ~cmd_template.some \/ cmd_template.v = <<>>
        THEN [ret |-> Raise("ValueError", "VOCAL_ENGINE_CMD environment variable is not set."),
              fs |-> fsys, log |-> <<>>]
        ELSE IF unknown_fields(cmd_template.v, map) # {}
        THEN [ret |-> Raise("ValueError", "Missing placeholder in VOCAL_ENGINE_CMD template"),
              fs |-> made, log |-> <<mkdir>>]
        ELSE IF ~a.engine.starts
        THEN [ret |-> Raise("CalledProcessError", "non-zero exit status 127"),
              fs |-> made, log |-> <<mkdir, shell_run(command)>>]
        ELSE IF a.engine.exit_code # 0
        THEN [ret |-> Raise("CalledProcessError", "non-zero exit status"),
              fs |-> ran, log |-> <<mkdir, shell_run(command)>>]
        ELSE IF missing_or_empty(ran[a.out_wav])
        THEN [ret |-> Raise("RuntimeError", "External vocal engine did not create a valid output"),
              fs |-> ran, log |-> <<mkdir, shell_run(command)>>]
        ELSE [ret |-> Return(a.out_wav), fs |-> ran, log |-> <<mkdir, shell_run(command)>>]

(***************************************************************************)
(* SpecExternal: one call of synthesize_vocals_external_engine.            *)
(***************************************************************************)
\* the template of the test, and one with a field resolved_paths lacks
ExternalTemplate ==
    <<Lit("echo"), Field("midi"), Field("lyrics"), Field("out"), Field("ref_dir")>>
UnknownFieldTemplate == <<Lit("engine"), Field("melody_midi"), Field("out")>>

InitExternal ==
    /\ pc = "call"
    /\ input \in {[op |-> "synthesize_vocals_external_engine", melody_midi |-> "melody.mid",
                   lyrics_txt |-> "lyrics.txt", out_wav |-> "vocals/demo.wav",
                   voice_ref_dir |-> v,
                   env |-> [VOCAL_ENGINE_CMD |-> c], engine |-> e] :
                     v \in {NoneVal, Some("voice")},
                     c \in {NoneVal, Some(<<>>), Some(ExternalTemplate), Some(UnknownFieldTemplate)},
                     e \in EngineBehaviours}
    /\ fs \in VocalFilesystems(input.out_wav)
    /\ ret = NoRet
    /\ reads = <<>>
    /\ backends = InitialBackends

SynthesizeVocalsExternalEngine ==
    /\ input.op = "synthesize_vocals_external_engine"
    /\ pc = "call"
    /\ \E r \in {synthesize_vocals_external_engine(fs, input)} :
           /\ ret' = r.ret
           /\ fs' = r.fs
           /\ reads' = r.log
    /\ pc' = "done"
    /\ UNCHANGED <<input, backends>>

NextExternal == SynthesizeVocalsExternalEngine

SpecExternal == InitExternal /\ [][NextExternal]_vars

(***************************************************************************)
(* Properties of synthesize_vocals_external_engine (SpecExternal).         *)
(***************************************************************************)
ExternalCall == pc = "call" /\ input.op = "synthesize_vocals_external_engine"

CmdUnsetOrEmpty ==
    ~input.env.VOCAL_ENGINE_CMD.some \/ input.env.VOCAL_ENGINE_CMD.v = <<>>

\* the commands the step ran
CommandsRun == {i \in 1..Len(reads') : reads'[i][1] = "subprocess.run"}

\* the template of the test with its four fields replaced by absolute paths
ExpectedCommand ==
    <<Lit("echo"), Resolved(input.melody_midi), Resolved(input.lyrics_txt),
      Resolved(input.out_wav),
      IF input.voice_ref_dir.some THEN Resolved(input.voice_ref_dir.v) ELSE Lit("")>>

\* exactly one command was run, through the shell and with check=True
RanOneShellCommand(command) ==
    /\ Cardinality(CommandsRun) = 1
    /\ \A i \in CommandsRun :
          reads'[i][2] = [command |-> command, shell |-> TRUE, check |-> TRUE]

\* out_wav returned if it exists and is not empty, RuntimeError otherwise
ReturnsIfOutputValid ==
    IF fs'[input.out_wav].exists /\ "empty" \notin DOMAIN fs'[input.out_wav]
    THEN ret' = Return(input.out_wav)
    ELSE ret'.kind = "raise" /\ ret'.exc = "RuntimeError"

RaisesBeforeAnything ==
    /\ ret'.kind = "raise"
    /\ ret'.exc = "ValueError"
    /\ fs' = fs
    /\ reads' = <<>>

\* C21 as stated: with VOCAL_ENGINE_CMD unset or empty, ValueError before
\* any directory is created or command run; otherwise exactly one shell
\* command, the template with its fields replaced by absolute paths, and
\* then out_wav returned if it exists and is non-empty, else RuntimeError.
C21_RunsOnceThenValidates ==
    [][ExternalCall =>
         IF CmdUnsetOrEmpty THEN RaisesBeforeAnything
         ELSE /\ RanOneShellCommand(ExpectedCommand)
              /\ ReturnsIfOutputValid]_vars

\* C21 amended: a template naming a field other than midi, lyrics, out and
\* ref_dir raises ValueError after out_wav's parent directory was created
\* and with no command run; a command that exits with a non-zero status
\* raises CalledProcessError whatever is at out_wav; only after a command
\* that exits with status 0 is out_wav validated.
C21_RunsOnceUnlessBadTemplate ==
    [][ExternalCall =>
         IF CmdUnsetOrEmpty THEN RaisesBeforeAnything
         ELSE IF input.env.VOCAL_ENGINE_CMD.v = UnknownFieldTemplate
         THEN /\ ret'.kind = "raise" /\ ret'.exc = "ValueError"
              /\ CommandsRun = {}
              /\ fs' = mkdir_parents(fs, parent(input.out_wav))
         ELSE /\ RanOneShellCommand(ExpectedCommand)
              /\ IF ~input.engine.starts \/ input.engine.exit_code # 0
                 THEN ret'.kind = "raise" /\ ret'.exc = "CalledProcessError"
                 ELSE ReturnsIfOutputValid]_vars

\* the command of the test ran once without a voice_ref_dir, in a missing
\* parent directory, and left an empty file: RuntimeError
C21_Witness ==
    /\ pc = "done"
    /\ input.op = "synthesize_vocals_external_engine"
    /\ input.env.VOCAL_ENGINE_CMD = Some(ExternalTemplate)
    /\ ~input.voice_ref_dir.some
    /\ reads = <<<<"mkdir", "vocals">>,
                 <<"subprocess.run",
                   [command |-> <<Lit("echo"), Resolved("melody.mid"), Resolved("lyrics.txt"),
                                  Resolved("vocals/demo.wav"), Lit("")>>,
                    shell |-> TRUE, check |-> TRUE]>>>>
    /\ fs[input.out_wav] = EmptyFile
    /\ ret.kind = "raise"
    /\ ret.exc = "RuntimeError"

(***************************************************************************)
(* SpecStale: one call of either external-engine path                      *)
(* (synthesize_vocals_external_engine, or _run_external_engine through     *)
(* synthesize_vocals), with or without a file already at out_wav.          *)
(***************************************************************************)
InitStale == InitExternal \/ InitEngine

NextStale == SynthesizeVocalsExternalEngine \/ SynthesizeVocals

SpecStale == InitStale /\ [][NextStale]_vars

\* C29: a call whose command wrote nothing at out_wav does not end as a
\* successful synthesis, that is, returning out_wav with the file that was
\* there before the call still in place.
C29_StaleOutputIsNotSuccess ==
    (/\ pc = "done"
     /\ input.op \in {"synthesize_vocals_external_engine", "synthesize_vocals"}
     /\ input.engine.output = "none")
        => ~(ret = Return(input.out_wav) /\ fs[input.out_wav] = OldVocal)

(***************************************************************************)
(* melody/melody_generator.py, generate_placeholder_melody.                *)
(* A style_profile is None or a dict with the optional keys tempo_mean and *)
(* energy_profile (a dict with the optional keys low and high).            *)
(* rng.choice is a free choice among the candidates.                       *)
(***************************************************************************)
MaxBars == 2       \* the bars argument, and one more line than that
MaxBeats == 2      \* beats_per_bar
MaxWideSteps == 4  \* notes of a melody generated with the default max_interval
MaxNarrowSteps == 6   \* notes of a melody generated with max_interval 2

\* lines 25-36
KEY_TO_ROOT == [C |-> 60, D |-> 62, E |-> 64, F |-> 65, G |-> 67, A |-> 69, B |-> 71]
MAJOR_INTERVALS == <<0, 2, 4, 5, 7, 9, 11>>
MINOR_INTERVALS == <<0, 2, 3, 5, 7, 8, 10>>

\* lines 39-45, _build_scale_pitches: the sorted list of distinct values, as a set
build_scale_pitches(root, intervals, octaves) ==
    {root + intervals[i] + 12 * octave : i \in 1..Len(intervals), octave \in -1..octaves}

\* dict.get(key, default) on a dict whose absent keys are NoneVal
get_or(d, key, default) == IF d[key].some THEN d[key].v ELSE default

\* `not style_profile`: None or the empty dict
is_falsy_profile(style_profile) ==
    ~style_profile.some
    \/ (~style_profile.v.tempo_mean.some /\ ~style_profile.v.energy_profile.some)

\* lines 48-58, _choose_scale
choose_scale(style_profile) ==
    IF is_falsy_profile(style_profile)
    THEN [root |-> KEY_TO_ROOT["C"], scale |-> MAJOR_INTERVALS]
    ELSE LET tempo == get_or(style_profile.v, "tempo_mean", 110)
             energy == get_or(style_profile.v, "energy_profile", [low |-> NoneVal, high |-> NoneVal])
             energy_bias == RSub(get_or(energy, "high", RZero), get_or(energy, "low", RZero))
         IN  IF tempo >= 112 \/ RLe(RZero, energy_bias)
             THEN [root |-> KEY_TO_ROOT["C"], scale |-> MAJOR_INTERVALS]
             ELSE [root |-> KEY_TO_ROOT["A"], scale |-> MINOR_INTERVALS]

\* MelodyNote(pitch, start_beat, duration), velocity 90 by default
MelodyNote(pitch, start_beat, duration) ==
    [pitch |-> pitch, start_beat |-> start_beat, duration |-> duration, velocity |-> 90]

\* the bars as given, whatever the number of lines
effective_bars_as_given(bars, lines) == bars

\* lines 72-73: the bars after the lines were counted
effective_bars(bars, lines) ==
    IF lines.some /\ Len(lines.v) > 0
    THEN (IF Len(lines.v) >= bars THEN Len(lines.v) ELSE bars)
    ELSE bars

\* lines 98-101: last_pitch after the note of this step
next_last_pitch(pitch, step, beats_per_bar, first_pitch) ==
    IF beats_per_bar > 0 /\ (step + 1) % beats_per_bar = 0 THEN first_pitch ELSE pitch

\* lines 88-94: the pitches rng.choice may return at this step
candidates(notes, last_pitch, scale_pool, max_interval) ==
    IF notes = <<>> THEN {last_pitch}
    ELSE LET near == {p \in scale_pool :
                        p - last_pitch <= max_interval /\ last_pitch - p <= max_interval}
         IN  IF near = {} THEN {last_pitch} ELSE near

\* lines 87-101: every list of notes the loop can build from this step on
RECURSIVE melodies_from(_, _, _, _)
melodies_from(step, last_pitch, notes, c) ==
    IF step >= c.total_steps THEN {notes}
    ELSE UNION {melodies_from(step + 1,
                              next_last_pitch(pitch, step, c.beats_per_bar, c.first_pitch),
                              Append(notes, MelodyNote(pitch, RInt(step), ROne)),
                              c) :
                   pitch \in candidates(notes, last_pitch, c.scale_pool, c.max_interval)}

\* lines 61-103: the outcomes of the call, one for each sequence of choices
generate_placeholder_melody(a) ==
    LET bars == effective_bars(a.bars, a.lines)
        chosen == choose_scale(a.style_profile)
        c == [total_steps |-> bars * a.beats_per_bar,
              beats_per_bar |-> a.beats_per_bar,
              first_pitch |-> chosen.root + chosen.scale[1],
              scale_pool |-> build_scale_pitches(chosen.root, chosen.scale, 2),
              max_interval |-> a.max_interval]
    IN  IF bars <= 0 THEN {Raise("ValueError", "bars must be positive")}
        ELSE {Return(notes) : notes \in melodies_from(0, c.first_pitch, <<>>, c)}

(***************************************************************************)
(* SpecMelody: one call of generate_placeholder_melody.                    *)
(***************************************************************************)
\* the profiles of the tests, the empty dict and a dict with no tempo
StyleProfiles ==
    {NoneVal,
     Some([tempo_mean |-> NoneVal, energy_profile |-> NoneVal]),
     Some([tempo_mean |-> NoneVal,
           energy_profile |-> Some([low |-> NoneVal, high |-> NoneVal])]),
     Some([tempo_mean |-> Some(120),
           energy_profile |-> Some([low |-> Some(<<1, 5>>), high |-> Some(<<3, 5>>)])]),
     Some([tempo_mean |-> Some(110),
           energy_profile |-> Some([low |-> Some(<<3, 10>>), high |-> Some(<<1, 10>>)])]),
     Some([tempo_mean |-> Some(100),
           energy_profile |-> Some([low |-> Some(<<3, 10>>), high |-> Some(<<2, 5>>)])])}

LineLists == {NoneVal, Some(<<>>)} \cup {Some(Tab(LAMBDA i : "la", n)) : n \in {1, MaxBars + 1}}

\* the narrow interval with any number of notes, the default of 7 with few
MelodyCalls ==
    {a \in [op : {"generate_placeholder_melody"}, style_profile : StyleProfiles,
            bars : -1..MaxBars, beats_per_bar : 0..MaxBeats, lines : LineLists,
            max_interval : {2, 7}] :
        effective_bars(a.bars, a.lines) * a.beats_per_bar
            <= (IF a.max_interval = 7 THEN MaxWideSteps ELSE MaxNarrowSteps)}

InitMelody ==
    /\ pc = "call"
    /\ input \in MelodyCalls
    /\ fs = [p \in {"melody.mid"} |-> NoFile]
    /\ ret = NoRet
    /\ reads = <<>>
    /\ backends = InitialBackends

GeneratePlaceholderMelody ==
    /\ pc = "call"
    /\ input.op = "generate_placeholder_melody"
    /\ ret' \in generate_placeholder_melody(input)
    /\ pc' = "done"
    /\ UNCHANGED <<input, fs, reads, backends>>

NextMelody == GeneratePlaceholderMelody

SpecMelody == InitMelody /\ [][NextMelody]_vars

(***************************************************************************)
(* Properties of generate_placeholder_melody (SpecMelody).                 *)
(***************************************************************************)
MelodyReturned ==
    pc = "done" /\ input.op = "generate_placeholder_melody" /\ ret.kind = "return"

Distance(p, q) == IF p >= q THEN p - q ELSE q - p

\* C22: each pair of consecutive notes of a returned melody differs in
\* pitch by at most max_interval, the pair across a bar line included.
C22_ConsecutiveWithinInterval ==
    (MelodyReturned /\ input.bars >= 1) =>
        \A k \in 1..(Len(ret.value) - 1) :
            Distance(ret.value[k].pitch, ret.value[k + 1].pitch) <= input.max_interval

\* C23: a returned melody has max(bars, number of lines) * beats_per_bar
\* notes, the k-th (from 0) at beat k with duration 1.0, so that the start
\* beats increase strictly and no note overlaps the next; the call raises
\* ValueError exactly when max(bars, number of lines) <= 0.
C23_OneNotePerBeat ==
    (pc = "done" /\ input.op = "generate_placeholder_melody") =>
        \A n \in {IF input.lines.some /\ Len(input.lines.v) > input.bars
                  THEN Len(input.lines.v) ELSE input.bars} :
            IF n <= 0
            THEN ret.kind = "raise" /\ ret.exc = "ValueError"
            ELSE /\ ret.kind = "return"
                 /\ Len(ret.value) = n * input.beats_per_bar
                 /\ \A k \in 1..Len(ret.value) :
                       /\ ret.value[k].start_beat = RInt(k - 1)
                       /\ ret.value[k].duration = ROne
                 /\ \A k \in 1..(Len(ret.value) - 1) :
                       /\ RLt(ret.value[k].start_beat, ret.value[k + 1].start_beat)
                       /\ RLe(RAdd(ret.value[k].start_beat, ret.value[k].duration),
                              ret.value[k + 1].start_beat)

\* three lines with one bar asked for: three bars of two notes
C23_Witness ==
    /\ MelodyReturned
    /\ input.bars = 1
    /\ input.lines.some
    /\ Len(input.lines.v) = 3
    /\ input.beats_per_bar = 2
    /\ Len(ret.value) = 6
    /\ ret.value[6].start_beat = RInt(5)
    /\ ret.value[6].pitch # ret.value[5].pitch

(***************************************************************************)
(* lyrics/lyrics_generator.py, _normalize_sections, _text_fallback_to_     *)
(* structure, _parse_json_safe and generate_lyrics.                        *)
(* A str is the sequence of its lines (str.splitlines()); a line has a     *)
(* body and may be padded with whitespace, and a blank line has the body   *)
(* "".  Python and JSON values are tagged: null, str, num, list, dict; a   *)
(* dict is a record whose absent keys are NoneVal.  json.loads is not      *)
(* re-implemented: a response is a text together with what json.loads      *)
(* gives for that text, a value or JSONDecodeError.                        *)
(***************************************************************************)
MaxLines == 2      \* lines of a plain-text response
MaxEntries == 2    \* entries of a "sections" list

RawLine(pad, body) == [pad |-> pad, body |-> body]

JNull == [t |-> "null"]
JStr(text) == [t |-> "str", text |-> text]
JNum(n, repr) == [t |-> "num", n |-> n, repr |-> repr]
JList(items) == [t |-> "list", items |-> items]
JDict(d) == [t |-> "dict", d |-> d]

\* a one-line str without padding
Str(body) == JStr(<<RawLine(FALSE, body)>>)

\* line.strip()
strip(line) == RawLine(FALSE, line.body)

\* bool(value)
truthy(j) ==
    IF j.t = "null" THEN FALSE
    ELSE IF j.t = "str" THEN j.text # <<>>
    ELSE IF j.t = "num" THEN j.n # 0
    ELSE IF j.t = "list" THEN j.items # <<>>
    ELSE \E k \in DOMAIN j.d : j.d[k].some

\* d.get(key) or default
get_or_default(d, key, default) ==
    IF d[key].some /\ truthy(d[key].v) THEN d[key].v ELSE default

\* str(line) of an entry of a lines list, as one line
str_of(j) ==
    IF j.t = "str" THEN (IF j.text = <<>> THEN RawLine(FALSE, "") ELSE j.text[1])
    ELSE IF j.t = "num" THEN RawLine(FALSE, j.repr)
    ELSE IF j.t = "null" THEN RawLine(FALSE, "None")
    ELSE RawLine(FALSE, "[...]")

NonBlank(line) == line.body # ""

\* [line.strip() for line in text.splitlines() if line.strip()]
stripped_lines(text) ==
    LET kept == SelectSeq(text, NonBlank)
    IN  Tab(LAMBDA i : JStr(<<strip(kept[i])>>), Len(kept))

\* line 103: [str(line).strip() for line in lines if str(line).strip()]
stripped_items(items) ==
    stripped_lines(Tab(LAMBDA i : str_of(items[i]), Len(items)))

SectionNames == <<"Section 1", "Section 2", "Section 3">>

\* lines 101-107: clean_lines of one entry
clean_lines(entry) ==
    IF ~entry.d.lines.some THEN <<>>
    ELSE IF entry.d.lines.v.t = "list" THEN stripped_items(entry.d.lines.v.items)
    ELSE IF entry.d.lines.v.t = "str" THEN stripped_lines(entry.d.lines.v.text)
    ELSE <<>>

\* lines 96-116: the entries from idx on, normalized
RECURSIVE normalize_from(_, _)
normalize_from(items, idx) ==
    IF idx > Len(items) THEN <<>>
    ELSE LET entry == items[idx]
             rest == normalize_from(items, idx + 1)
         IN  IF entry.t # "dict" THEN rest
             ELSE IF clean_lines(entry) = <<>> THEN rest
             ELSE <<JDict([type |-> Some(get_or_default(entry.d, "type", Str("verse"))),
                           name |-> Some(get_or_default(entry.d, "name", Str(SectionNames[idx]))),
                           lines |-> Some(JList(clean_lines(entry)))])>> \o rest

\* lines 92-117, _normalize_sections (sections: data.get("sections"))
normalize_sections(sections) ==
    IF ~sections.some THEN <<>>
    ELSE IF sections.v.t # "list" THEN <<>>
    ELSE normalize_from(sections.v.items, 1)

\* line 123: the line that stands for a text without lyrics
NO_LYRICS == Str("(no lyrics)")
\* line 125: the title of a text without one
UNTITLED == Str("(untitled)")

\* lines 120-135, _text_fallback_to_structure on a str
text_fallback_to_structure(text) ==
    LET lines == stripped_lines(text)
    IN  [title |-> Some(UNTITLED),
         language |-> Some(Str("zh")),
         theme |-> Some(JNull),
         sections |-> Some(JList(<<JDict([type |-> Some(Str("verse")),
                                          name |-> Some(Str("Verse 1")),
                                          lines |-> Some(JList(IF lines = <<>> THEN <<NO_LYRICS>>
                                                               ELSE lines))])>>)),
         lyrics |-> NoneVal]

\* lines 138-154, _parse_json_safe
parse_json_safe(response) ==
    LET data == response.json.v.d
        with_language == IF data.language.some THEN data
                         ELSE [data EXCEPT !.language = Some(Str("zh"))]
        sections == normalize_sections(data.sections)
        fallback == text_fallback_to_structure(data.lyrics.v.text)
    IN  IF ~response.json.some \/ response.json.v.t # "dict"
        THEN Return(text_fallback_to_structure(response.text))
        ELSE IF sections = <<>> /\ data.lyrics.some /\ truthy(data.lyrics.v)
        THEN IF data.lyrics.v.t # "str"
             THEN Raise("AttributeError", "object has no attribute 'splitlines'")
             ELSE Return([fallback EXCEPT
                            !.title = Some(get_or_default(data, "title", UNTITLED)),
                            !.theme = Some(IF data.theme.some THEN data.theme.v ELSE JNull)])
        ELSE IF sections # <<>>
        THEN Return([with_language EXCEPT !.sections = Some(JList(sections))])
        ELSE Return(text_fallback_to_structure(response.text))

\* lines 157-174, generate_lyrics; a.response is what the API call gives:
\* an OpenAIError, a response no text can be extracted from, or a text
generate_lyrics(a) ==
    LET result == parse_json_safe(a.response)
        themed == IF truthy(a.theme) /\ ~(result.value.theme.some /\ truthy(result.value.theme.v))
                  THEN [result.value EXCEPT !.theme = Some(a.theme)]
                  ELSE result.value
    IN  IF ~a.env.OPENAI_API_KEY.some
        THEN Raise("RuntimeError", "OPENAI_API_KEY environment variable is required to generate lyrics.")
        ELSE IF a.response.kind = "OpenAIError"
        THEN Raise("RuntimeError", "Failed to generate lyrics")
        ELSE IF a.response.kind = "no_text"
        THEN Raise("RuntimeError", "Failed to extract lyrics text from OpenAI response")
        ELSE IF result.kind = "raise" THEN result
        ELSE Return(IF themed.language.some THEN themed
                    ELSE [themed EXCEPT !.language = Some(Str("zh"))])

(***************************************************************************)
(* SpecLyrics: one call of _parse_json_safe or of generate_lyrics on a     *)
(* response of the model.                                                  *)
(***************************************************************************)
\* the lines a text is made of: plain, padded, and blank ones
RawLines == {RawLine(FALSE, "la"), RawLine(TRUE, "la la"), RawLine(TRUE, ""), RawLine(FALSE, "")}

\* the entries of a "sections" list
SectionEntries ==
    {Str("verse"),
     JDict([type |-> Some(Str("chorus")), name |-> Some(Str("Chorus")),
            lines |-> Some(JList(<<JStr(<<RawLine(TRUE, "la la")>>), JNum(5, "5"), JStr(<<>>)>>))]),
     JDict([type |-> NoneVal, name |-> Some(JStr(<<>>)),
            lines |-> Some(JStr(<<RawLine(TRUE, "la"), RawLine(FALSE, ""), RawLine(FALSE, "la")>>))]),
     JDict([type |-> Some(Str("verse")), name |-> NoneVal,
            lines |-> Some(JList(<<JStr(<<RawLine(TRUE, "")>>), JStr(<<>>)>>))]),
     JDict([type |-> Some(Str("verse")), name |-> Some(Str("Verse 1")), lines |-> NoneVal]),
     JDict([type |-> Some(Str("verse")), name |-> Some(Str("Verse 1")), lines |-> Some(JNum(5, "5"))])}

\* the JSON objects a response may be
JsonObjects ==
    {JDict([title |-> ti, language |-> la, theme |-> th, sections |-> se, lyrics |-> ly]) :
        ti \in {NoneVal, Some(Str("Song"))},
        la \in {NoneVal, Some(Str("en"))},
        th \in {NoneVal, Some(JNull), Some(Str("hope"))},
        se \in {NoneVal, Some(JNull), Some(Str("la"))}
               \cup {Some(JList(es)) : es \in SeqsUpTo(SectionEntries, MaxEntries)},
        ly \in {NoneVal, Some(JStr(<<>>)), Some(JStr(<<RawLine(TRUE, "")>>)),
                Some(JStr(<<RawLine(TRUE, "la"), RawLine(FALSE, "la la")>>)),
                Some(JList(<<Str("la")>>)), Some(JNum(0, "0")), Some(JNum(5, "5"))}}

\* a JSON document written on one line
OneLine(body) == <<RawLine(FALSE, body)>>

\* the responses: plain text (not JSON), a JSON array, JSON scalars, and
\* JSON objects
Responses ==
    {[kind |-> "text", text |-> t, json |-> NoneVal] : t \in SeqsUpTo(RawLines, MaxLines)}
    \cup {[kind |-> "text", text |-> OneLine("[1, 2]"),
           json |-> Some(JList(<<JNum(1, "1"), JNum(2, "2")>>))],
          [kind |-> "text", text |-> OneLine("5"), json |-> Some(JNum(5, "5"))],
          [kind |-> "text", text |-> OneLine("null"), json |-> Some(JNull)],
          [kind |-> "text", text |-> OneLine("\"la\""), json |-> Some(Str("la"))]}
    \cup {[kind |-> "text", text |-> OneLine("{...}"), json |-> Some(o)] : o \in JsonObjects}

InitLyrics ==
    /\ pc = "call"
    /\ \/ input \in {[op |-> "parse_json_safe", response |-> r] : r \in Responses}
       \/ input \in {[op |-> "generate_lyrics", response |-> r, theme |-> th,
                      env |-> [OPENAI_API_KEY |-> k]] :
                        r \in Responses \cup {[kind |-> "OpenAIError"], [kind |-> "no_text"]},
                        th \in {JNull, JStr(<<>>), Str("dream")},
                        k \in {NoneVal, Some("sk-test")}}
    /\ fs = [p \in {"lyrics.json"} |-> NoFile]
    /\ ret = NoRet
    /\ reads = <<>>
    /\ backends = InitialBackends

ParseJsonSafe ==
    /\ pc = "call"
    /\ input.op = "parse_json_safe"
    /\ ret' = parse_json_safe(input.response)
    /\ pc' = "done"
    /\ UNCHANGED <<input, fs, reads, backends>>

GenerateLyrics ==
    /\ pc = "call"
    /\ input.op = "generate_lyrics"
    /\ ret' = generate_lyrics(input)
    /\ pc' = "done"
    /\ UNCHANGED <<input, fs, reads, backends>>

NextLyrics == ParseJsonSafe \/ GenerateLyrics

SpecLyrics == InitLyrics /\ [][NextLyrics]_vars

(***************************************************************************)
(* Properties of the lyrics parsing (SpecLyrics).                          *)
(***************************************************************************)
\* a non-empty str of one line without padding
IsStrippedLine(j) ==
    /\ j.t = "str"
    /\ Len(j.text) = 1
    /\ ~j.text[1].pad
    /\ j.text[1].body # ""

\* the entry has at least one line that is not blank
HasUsableLines(entry) ==
    /\ entry.t = "dict"
    /\ entry.d.lines.some
    /\ \/ /\ entry.d.lines.v.t = "list"
          /\ \E i \in 1..Len(entry.d.lines.v.items) : str_of(entry.d.lines.v.items[i]).body # ""
       \/ /\ entry.d.lines.v.t = "str"
          /\ \E i \in 1..Len(entry.d.lines.v.text) : entry.d.lines.v.text[i].body # ""

\* the response is a JSON object with usable sections
HasUsableSections(response) ==
    /\ response.json.some
    /\ response.json.v.t = "dict"
    /\ response.json.v.d.sections.some
    /\ response.json.v.d.sections.v.t = "list"
    /\ \E i \in 1..Len(response.json.v.d.sections.v.items) :
          HasUsableLines(response.json.v.d.sections.v.items[i])

\* the non-blank lines of the response text, stripped, in order
TextLines ==
    LET kept == SelectSeq(input.response.text, NonBlank)
    IN  Tab(LAMBDA i : Str(kept[i].body), Len(kept))

\* C24: when the response text is not a JSON object with usable sections,
\* generate_lyrics returns a dict with language 'zh' and the one section
\* verse / 'Verse 1' whose lines are the non-blank stripped lines of the
\* response text (one placeholder line if there is none), and a theme
\* given by the caller is the theme of the result.
C24_FallbackOnUnusableResponse ==
    (/\ pc = "done"
     /\ input.op = "generate_lyrics"
     /\ input.env.OPENAI_API_KEY.some
     /\ input.response.kind = "text"
     /\ ~HasUsableSections(input.response))
        => /\ ret.kind = "return"
           /\ ret.value.language = Some(Str("zh"))
           /\ ret.value.sections
                = Some(JList(<<JDict([type |-> Some(Str("verse")),
                                      name |-> Some(Str("Verse 1")),
                                      lines |-> Some(JList(IF TextLines = <<>> THEN <<NO_LYRICS>>
                                                           ELSE TextLines))])>>))
           /\ truthy(input.theme) => ret.value.theme = Some(input.theme)

\* C30: _parse_json_safe returns for every response a dict whose sections
\* are a non-empty list, every section with a non-empty list of lines, every
\* line a non-empty stripped string.
C30_SectionsAlwaysUsable ==
    (pc = "done" /\ input.op = "parse_json_safe")
        => /\ ret.kind = "return"
           /\ ret.value.sections.some
           /\ ret.value.sections.v.t = "list"
           /\ ret.value.sections.v.items # <<>>
           /\ \A i \in 1..Len(ret.value.sections.v.items) :
                 \A s \in {ret.value.sections.v.items[i].d} :
                    /\ s.lines.some
                    /\ s.lines.v.t = "list"
                    /\ s.lines.v.items # <<>>
                    /\ \A k \in 1..Len(s.lines.v.items) : IsStrippedLine(s.lines.v.items[k])

====
